---- MODULE Spec2Model ----
(***************************************************************************)
(* Model of express-otel-observability: the guarded boundary operations    *)
(* (patched RabbitMQ send, wrapConsumer, Socket.IO handlers), the          *)
(* structured logger with its OTLP availability flag, and the redaction    *)
(* of log metadata.                                                        *)
(*                                                                         *)
(* The specifications share the variables; each exercises one part:       *)
(*   Spec      the guarded boundary operations, interleaved at awaits      *)
(*   SpecLog   StructuredLogger.writeLog and the availability flag         *)
(*   SpecMask  maskSensitiveData over bounded JSON metadata                *)
(*   SpecCarrier  the manual inject / extract helpers                      *)
(*   SpecPatch    initRabbitMQInterceptor / restoreRabbitMQ                *)
(*   SpecSocket   initSocketIOInterceptor and the socket.on override       *)
(*   SpecAbandon  handlers that never settle, with fair settle steps       *)
(*   SpecConfig   initStructuredLogger, createLogger, the default logger   *)
(*   SpecWinston  WinstonOtelTransport.log beside StructuredLogger         *)
(*   SpecEntry    the trace stamp of log entries                           *)
(*   SpecHttp     httpMetricsMiddleware                                    *)
(*   SpecFields   the fields of a log entry against its metadata           *)
(*   SpecError    observabilityErrorMiddleware                             *)
(***************************************************************************)
EXTENDS Integers, Sequences, FiniteSets, TLC

VARIABLES
    ops,            \* one record per invocation slot of a guarded operation
    spans,          \* spans created by tracer.startSpan, in creation order
    metrics,        \* records passed to MetricsService.record*, in call order
    backendUp,      \* whether the telemetry backend currently accepts exports
    isPatched,      \* rabbitmq-interceptor: let isPatched
    originalSend,   \* rabbitmq-interceptor: let originalSend
    protoSend,      \* RabbitMQClass.prototype.send: "orig" or "wrapper"
    otlpAvailable,  \* otel-logger: the availability flag
    flagCause,      \* which call last wrote the flag: init, emitFail, emitOk, mark
    logger,         \* the StructuredLogger instance's readonly fields
    console,        \* lines written to the console, in order
    otlpLog,        \* records accepted by the remote log exporter
    lastLog,        \* what the last logger call did
    nCalls,         \* number of logger API calls made so far
    meta,           \* metadata mapping handed to maskSensitiveData
    sensitive,      \* sensitiveFields used by maskSensitiveData
    masked,         \* [done, v]: the result v of maskSensitiveData once done
    prop,           \* the last manual inject / extract helper calls and their results
    lifecycle,      \* initRabbitMQInterceptor / restoreRabbitMQ calls made, in order
    lastCall,       \* what the last initRabbitMQInterceptor / restoreRabbitMQ call did
    ioListeners,    \* 'connection' listeners registered on the Socket.IO server, in order
    clientSocket,   \* the socket: its socket.on override layers and registered handlers
    lastFire,       \* what the last firing of a socket event did
    globalOptions,  \* structured-logger: let globalOptions
    instances,      \* the StructuredLogger objects constructed so far, in order
    lastInstLog,    \* what the last log call through one of the instances did
    transport,      \* the WinstonOtelTransport instance's readonly fields
    lastWinston,    \* what the last WinstonOtelTransport.log call did
    lastEntry,      \* the trace stamp of the last log entry createLogEntry built
    reqs,           \* one record per HTTP request slot of httpMetricsMiddleware
    httpMetrics,    \* records passed to recordHttpRequest, in call order
    clock,          \* Date.now()
    lastFields,     \* the fields of the last log entry built from metadata
    lastError       \* what the last observabilityErrorMiddleware call did

traceVars == <<ops, spans, metrics, isPatched, originalSend, protoSend>>
logVars   == <<otlpAvailable, flagCause, logger, console, otlpLog, lastLog, nCalls>>
maskVars  == <<meta, sensitive, masked>>
propVars  == <<prop>>
patchVars == <<lifecycle, lastCall>>
sioVars   == <<ioListeners, clientSocket, lastFire>>
cfgVars   == <<globalOptions, instances, lastInstLog>>
winVars   == <<transport, lastWinston>>
entryVars == <<lastEntry>>
httpVars  == <<reqs, httpMetrics, clock>>
tailVars  == <<lastFields, lastError>>
restVars  == <<cfgVars, winVars, entryVars, httpVars, tailVars>>
moreVars  == <<propVars, patchVars, sioVars, restVars>>
vars      == <<traceVars, backendUp, logVars, maskVars, moreVars>>

(***************************************************************************)
(* Bounds                                                                  *)
(***************************************************************************)
MaxOps == 2
MaxCalls == 2
MaxDepth == 2

OpIds == 1..MaxOps

(***************************************************************************)
(* Trace contexts, carriers, the W3C propagator, the tracer                *)
(***************************************************************************)
NoSpan == [traceId |-> 0, spanId |-> 0, isRemote |-> FALSE, traceState |-> <<>>]

\* A Context is modelled by the span context it carries (NoSpan for ROOT_CONTEXT).
RootContext == NoSpan

AmbientSpan == [traceId |-> 1, spanId |-> 11, isRemote |-> FALSE, traceState |-> <<>>]

Ambients == {RootContext, AmbientSpan}

IsSpanContextValid(sc) == sc.traceId > 0 /\ sc.spanId > 0

\* A carrier is a function from header names to values; every value is a
\* sequence.  A traceparent value is the sequence of its hyphen-separated
\* fields <<version, trace-id, span-id, flags>>.
EmptyCarrier == <<>>

Carrier1(k, v) == [x \in {k} |-> v]

MergeCarrier(a, b) ==
    [k \in (DOMAIN a) \cup (DOMAIN b) |-> IF k \in DOMAIN b THEN b[k] ELSE a[k]]

FormatTraceParent(sc) == <<"00", sc.traceId, sc.spanId, "01">>

\* parseTraceParent: four fields, version not ff, ids not all-zero.
ParseTraceParent(tp) ==
    IF /\ Len(tp) = 4
       /\ tp[1] # "ff"
       /\ tp[2] > 0
       /\ tp[3] > 0
    THEN [traceId |-> tp[2], spanId |-> tp[3], isRemote |-> TRUE, traceState |-> <<>>]
    ELSE NoSpan

\* propagation.inject(context, carrier): no-op without a valid span context.
PropagationInject(ctx, carrier) ==
    IF ~IsSpanContextValid(ctx)
    THEN carrier
    ELSE LET withTp == MergeCarrier(carrier, Carrier1("traceparent", FormatTraceParent(ctx)))
         IN IF ctx.traceState # <<>>
            THEN MergeCarrier(withTp, Carrier1("tracestate", ctx.traceState))
            ELSE withTp

\* propagation.extract(context, carrier): the given context when there is no
\* parsable traceparent, else the context with the remote span context set.
PropagationExtract(ctx, carrier) ==
    IF "traceparent" \notin DOMAIN carrier
    THEN ctx
    ELSE LET sc == ParseTraceParent(carrier["traceparent"])
         IN IF ~IsSpanContextValid(sc)
            THEN ctx
            ELSE IF "tracestate" \in DOMAIN carrier
                 THEN [sc EXCEPT !.traceState = carrier["tracestate"]]
                 ELSE sc

FreshSpanId(n) == 20 + n
FreshTraceId(n) == 100 + n

\* tracer.startSpan(name, options, parentCtx): child of the span in parentCtx,
\* or the root of a fresh trace when parentCtx carries no valid span context.
NewSpan(n, parentCtx, kind, owner) ==
    [spanId    |-> FreshSpanId(n),
     traceId   |-> IF IsSpanContextValid(parentCtx) THEN parentCtx.traceId
                   ELSE FreshTraceId(n),
     parentId  |-> IF IsSpanContextValid(parentCtx) THEN parentCtx.spanId ELSE 0,
     traceState |-> parentCtx.traceState,
     kind      |-> kind,
     status    |-> "UNSET",
     statusMessage |-> "",
     exceptions |-> <<>>,
     endCalls  |-> 0,
     ended     |-> FALSE,
     owner     |-> owner]

\* trace.setSpan(ctx, span): the context whose active span is span.
SetSpan(ctx, sp) ==
    [traceId |-> sp.traceId, spanId |-> sp.spanId, isRemote |-> FALSE,
     traceState |-> sp.traceState]

\* Span.setStatus / recordException are ignored once the span has ended;
\* Span.end() ends the span on its first call only.
SpanSetStatus(sp, code, msg) ==
    IF sp.ended THEN sp ELSE [sp EXCEPT !.status = code, !.statusMessage = msg]

SpanRecordException(sp, err) ==
    IF sp.ended THEN sp ELSE [sp EXCEPT !.exceptions = Append(@, err)]

SpanEnd(sp) == [sp EXCEPT !.endCalls = @ + 1, !.ended = TRUE]

(***************************************************************************)
(* Inputs of the guarded boundary operations                               *)
(***************************************************************************)
\* Values a handler can throw or reject with: an Error instance, or a value
\* that is not an Error (throw 'str').  message is error.message, or the
\* string form of a non-Error value.
NoErr == [id |-> "none", isError |-> FALSE, message |-> ""]
ErrBoom == [id |-> "E1", isError |-> TRUE, message |-> "boom"]
ValStr == [id |-> "V1", isError |-> FALSE, message |-> "str"]
TypeErr == [id |-> "TypeError", isError |-> TRUE, message |-> "originalSend is null"]
MetricsErr == [id |-> "MetricsError", isError |-> TRUE, message |-> "metrics"]

\* How the guarded handler behaves: it resolves, throws before returning a
\* promise, or returns a promise that rejects.
Behaviours ==
    { [hb |-> "resolve", err |-> NoErr],
      [hb |-> "throwSync", err |-> ErrBoom],
      [hb |-> "reject", err |-> ErrBoom],
      [hb |-> "reject", err |-> ValStr] }

TpCarrier == <<"00", 2, 5, "01">>      \* trace 2, span 5
TpZeroTrace == <<"00", 0, 5, "01">>    \* all-zero trace id
TpZeroSpan == <<"00", 2, 0, "01">>     \* all-zero span id
TpBadVersion == <<"ff", 2, 5, "01">>   \* version ff
TpShort == <<"00", 2>>                 \* too few fields

MalformedTps == {TpZeroTrace, TpZeroSpan, TpBadVersion, TpShort}

\* msg.properties.headers of a consumed message (present = FALSE: undefined).
ConsumeHeaders ==
    { [present |-> FALSE, c |-> EmptyCarrier],
      [present |-> TRUE, c |-> EmptyCarrier],
      [present |-> TRUE, c |-> Carrier1("x-other", <<"v">>)],
      [present |-> TRUE, c |-> Carrier1("traceparent", TpCarrier)],
      [present |-> TRUE,
       c |-> MergeCarrier(Carrier1("traceparent", TpCarrier),
                          Carrier1("tracestate", <<"ts">>))] }
    \cup { [present |-> TRUE, c |-> Carrier1("traceparent", tp)] : tp \in MalformedTps }

\* The options argument of send (present = FALSE: undefined; hasHeaders =
\* FALSE: options without a headers field).
SendOptions ==
    { [present |-> FALSE, hasHeaders |-> FALSE, headers |-> EmptyCarrier, persistent |-> FALSE],
      [present |-> TRUE, hasHeaders |-> FALSE, headers |-> EmptyCarrier, persistent |-> TRUE],
      [present |-> TRUE, hasHeaders |-> TRUE, headers |-> Carrier1("x-other", <<"v">>),
       persistent |-> TRUE],
      [present |-> TRUE, hasHeaders |-> TRUE, headers |-> Carrier1("traceparent", TpCarrier),
       persistent |-> FALSE] }

\* The queue, message and receiver (this) of a send call.
Queues == {"orders", "audit"}

NoOptions ==
    [headers |-> EmptyCarrier, persistent |-> FALSE, receiver |-> "none",
     queue |-> "none", msg |-> "none"]

AbsentOptions ==
    [present |-> FALSE, hasHeaders |-> FALSE, headers |-> EmptyCarrier, persistent |-> FALSE]

\* What the caller handed to a wrapper: the options object (and what it holds
\* after the call), the receiver, the queue and the message.
NoGiven ==
    [options |-> AbsentOptions, after |-> AbsentOptions, receiver |-> "none",
     queue |-> "none", msg |-> "none"]

Pending == [type |-> "pending", val |-> "none"]

IdleOp ==
    [kind |-> "none", pc |-> "idle", beh |-> [hb |-> "resolve", err |-> NoErr],
     ambient |-> RootContext, carrier |-> EmptyCarrier, span |-> 0,
     handlerCalls |-> 0, handlerCtx |-> RootContext, passed |-> NoOptions,
     outcome |-> Pending, seenUp |-> TRUE, given |-> NoGiven, events |-> <<>>]

(***************************************************************************)
(* MetricsService (metrics/metrics.ts)                                     *)
(***************************************************************************)
\* Whether a record* call raises to its caller: fire-and-forget, never.
MetricsRaisesWhenDown(up) == ~up

MetricsRaises(up) == FALSE

(***************************************************************************)
(* The try / catch / finally shared by the four guarded wrappers           *)
(***************************************************************************)
\* catch: record the error on the span when it is an Error instance.
CatchSpan(sp, err) ==
    IF err.isError
    THEN SpanSetStatus(SpanRecordException(sp, err), "ERROR", err.message)
    ELSE sp

\* catch: throw error
CatchRethrow(err) == [type |-> "threw", val |-> err.id]

\* finally: span.end()
FinallySpanNoEnd(sp) == sp

FinallySpan(sp) == SpanEnd(sp)

\* The code after the await of the handler: hres is how the handler settled
\* ([ok, val, err]), m the metric attributes without the success flag, ret
\* the value the wrapper returns on success.
\* getMetrics().record*({..., success}): the record handed to the service.
MetricAlwaysSuccess(m, success) == [m EXCEPT !.success = TRUE]

MetricOf(m, success) == [m EXCEPT !.success = success]

\* The events a step of the wrapper's code produces, read off its effects:
\* a status written to the span, a metric handed over, the span ended.
StatusEvent(before, after) ==
    IF after.status # before.status THEN <<"statusSet">> ELSE <<>>

MetricEvent(recorded) == IF recorded # <<>> THEN <<"metricRecorded">> ELSE <<>>

EndEvent(before, after) ==
    IF after.endCalls > before.endCalls THEN <<"spanEnd">> ELSE <<>>

\* return result: what the caller of the wrapper receives on success.
WrapperReturnNothing(ret) == [type |-> "returned", val |-> "undefined"]

WrapperReturn(ret) == [type |-> "returned", val |-> ret]

GuardedSettle(sp, hres, m, ret, up) ==
    LET tryOk   == hres.ok /\ ~MetricsRaises(up)
        spTry   == IF hres.ok THEN SpanSetStatus(sp, "OK", "") ELSE sp
        caught  == IF hres.ok THEN MetricsErr ELSE hres.err
        spCatch == CatchSpan(spTry, caught)
        spBody  == IF tryOk THEN spTry ELSE spCatch
        spEnd   == FinallySpan(spBody)
        recorded == IF tryOk THEN <<MetricOf(m, TRUE)>>
                    ELSE IF MetricsRaises(up) THEN <<>>
                    ELSE <<MetricOf(m, FALSE)>>
    IN [span |-> spEnd,
        recorded |-> recorded,
        outcome |-> IF tryOk THEN WrapperReturn(ret)
                    ELSE IF MetricsRaises(up) THEN CatchRethrow(MetricsErr)
                    ELSE CatchRethrow(caught),
        events |-> StatusEvent(sp, spBody) \o MetricEvent(recorded)
                   \o EndEvent(spBody, spEnd)]

HandlerResult(beh) ==
    IF beh.hb = "resolve"
    THEN [ok |-> TRUE, val |-> "R", err |-> NoErr]
    ELSE [ok |-> FALSE, val |-> "none", err |-> beh.err]

\* Invocation slots are taken in order.
CanCall(i) ==
    /\ ops[i].pc = "idle"
    /\ IF i = 1 THEN TRUE ELSE ops[i - 1].pc # "idle"

\* The span the code after the await acts on: the const span of the same
\* call of the wrapper, not a variable shared between calls.
SharedSpan(i) == Len(spans)

OwnSpan(i) == ops[i].span

\* The state change of a wrapper when its handler has settled.
Settled(i, sp, m, ret) ==
    LET r == GuardedSettle(sp, HandlerResult(ops[i].beh), m, ret, backendUp)
    IN /\ spans' = [spans EXCEPT ![OwnSpan(i)] = r.span]
       /\ metrics' = metrics \o r.recorded
       /\ ops' = [ops EXCEPT ![i].pc = "done", ![i].outcome = r.outcome,
                             ![i].seenUp = backendUp,
                             ![i].events = @ \o <<"handlerSettled">> \o r.events]

(***************************************************************************)
(* wrapConsumer                                                            *)
(***************************************************************************)
RabbitMetric(i, operation) ==
    [name |-> "rabbit", operation |-> operation, success |-> FALSE, op |-> i]

WsMetric(i) ==
    [name |-> "ws", operation |-> "event", success |-> FALSE, op |-> i]

\* const headers = (msg.properties.headers || {})
HeadersOrEmpty(h) == IF h.present THEN h.c ELSE EmptyCarrier

\* const parentContext = propagation.extract(context.active(), headers)
ConsumerParentAmbientFirst(amb, h) ==
    IF IsSpanContextValid(amb) THEN amb ELSE PropagationExtract(amb, HeadersOrEmpty(h))

ConsumerParent(amb, h) == PropagationExtract(amb, HeadersOrEmpty(h))

\* The synchronous part of a wrapper up to the await of its handler: span sp
\* has been started and the handler is invoked (calls times) with hctx
\* active.  A handler that throws before returning a promise is caught at
\* once when syncCatch holds.
\* Whether the wrapper awaits the promise of its handler before it goes on
\* (const result = await context.with(...)).
AwaitsHandlerMissing == FALSE

AwaitsHandler == TRUE

\* What the wrapper sees of a promise it does not await: a value.
Unawaited == [ok |-> TRUE, val |-> "promise", err |-> NoErr]

Called(i, kind, beh, amb, carrier, sp, hctx, calls, passed, m, ret, syncCatch, given) ==
    LET started == <<"spanStart">>
                   \o (IF calls > 0 THEN <<"handlerStart">> ELSE <<>>)
        op == [ops[i] EXCEPT !.kind = kind, !.beh = beh, !.ambient = amb,
                             !.carrier = carrier, !.span = Len(spans) + 1,
                             !.handlerCalls = calls, !.handlerCtx = hctx,
                             !.passed = passed, !.given = given,
                             !.events = started]
        thrown == beh.hb = "throwSync" /\ syncCatch
    IN IF thrown \/ ~AwaitsHandler
       THEN LET hres == IF thrown THEN HandlerResult(beh) ELSE Unawaited
                r == GuardedSettle(sp, hres, m, ret, backendUp)
            IN /\ spans' = Append(spans, r.span)
               /\ metrics' = metrics \o r.recorded
               /\ ops' = [ops EXCEPT ![i] =
                            [op EXCEPT !.pc = "done",
                                       !.outcome = r.outcome,
                                       !.seenUp = backendUp,
                                       !.events = started
                                          \o (IF thrown THEN <<"handlerSettled">> ELSE <<>>)
                                          \o r.events]]
       ELSE /\ spans' = Append(spans, sp)
            /\ metrics' = metrics
            /\ ops' = [ops EXCEPT ![i] = [op EXCEPT !.pc = "awaiting"]]

\* context.with(trace.setSpan(parentContext, span), () => handler(span))
HandlerContext(amb, parentCtx, sp) == SetSpan(parentCtx, sp)

WrapConsumerCall(i) ==
    /\ CanCall(i)
    /\ \E h \in ConsumeHeaders, beh \in Behaviours, amb \in Ambients :
         LET parentContext == ConsumerParent(amb, h)
             sp == NewSpan(Len(spans) + 1, parentContext, "CONSUMER", i)
         IN Called(i, "consume", beh, amb, HeadersOrEmpty(h), sp,
                   HandlerContext(amb, parentContext, sp), 1, NoOptions,
                   RabbitMetric(i, "consume"), "R", TRUE, NoGiven)
    /\ UNCHANGED <<backendUp, isPatched, originalSend, protoSend, logVars, maskVars, moreVars>>

WrapConsumerSettle(i) ==
    /\ ops[i].pc = "awaiting"
    /\ ops[i].kind = "consume"
    /\ Settled(i, spans[ops[i].span], RabbitMetric(i, "consume"), "R")
    /\ UNCHANGED <<backendUp, isPatched, originalSend, protoSend, logVars, maskVars, moreVars>>

(***************************************************************************)
(* The patched send (patchRabbitMQ: proto.send wrapper)                    *)
(***************************************************************************)
Classes == {"RabbitMQ"}

\* Targets handed to initRabbitMQInterceptor that are no such class: one
\* whose prototype has no send, and one that has no prototype (undefined).
NoSendTarget == "NoSend"
NoProtoTarget == "NoProto"

Targets == Classes \cup {NoSendTarget, NoProtoTarget}

\* prototype.send of a target before any patch.
UnpatchedSend(c) ==
    IF c \in Classes THEN "orig"
    ELSE IF c = NoSendTarget THEN "missing"
    ELSE "noProto"

\* Depth at which a wrapper that calls itself exhausts the call stack.
MaxStack == 2

RangeErr == [id |-> "RangeError", isError |-> TRUE, message |-> "call stack"]

\* const headers = { ...(options?.headers || {}) }
SendHeaders(o) == IF o.present /\ o.hasHeaders THEN o.headers ELSE EmptyCarrier

\* propagation.inject(trace.setSpan(context.active(), span), headers)
SendInjectAmbient(amb, sp, o) == PropagationInject(amb, SendHeaders(o))

SendInject(amb, sp, o) == PropagationInject(SetSpan(amb, sp), SendHeaders(o))

\* The objects a call holds: the caller's headers object and the spread copy
\* made of it.  propagation.inject writes into the object it is handed.
HeapAfterInject(heap, target, ctx) ==
    [heap EXCEPT ![target] = PropagationInject(ctx, heap[target])]

\* The caller's options object after the call: inject is handed the copy
\* headers, not options.headers.
OptionsAfterSend(amb, sp, o) ==
    LET heap == [caller |-> o.headers, copy |-> SendHeaders(o)]
    IN [o EXCEPT !.headers = HeapAfterInject(heap, "copy", SetSpan(amb, sp)).caller]

\* originalSend.call(this, queue, msg, { ...options, headers })
SendPassed(amb, sp, o, receiver, queue, msg) ==
    [headers |-> SendInject(amb, sp, o),
     persistent |-> IF o.present THEN o.persistent ELSE FALSE,
     receiver |-> receiver, queue |-> queue, msg |-> msg]

SendGiven(amb, sp, o, receiver, queue, msg) ==
    [options |-> o, after |-> OptionsAfterSend(amb, sp, o), receiver |-> receiver,
     queue |-> queue, msg |-> msg]

\* A wrapper whose originalSend is a wrapper again calls itself until the
\* call stack is exhausted: every level has started a span, fails with the
\* RangeError, records a failure and ends its span.
RecursiveSend(i, amb, o, queue) ==
    LET n == Len(spans)
        level(k) == FinallySpan(CatchSpan(NewSpan(n + k, amb, "PRODUCER", i), RangeErr))
    IN /\ spans' = spans \o [k \in 1..MaxStack |-> level(k)]
       /\ metrics' = metrics \o [k \in 1..MaxStack |->
                                   MetricOf(RabbitMetric(i, "publish"), FALSE)]
       /\ ops' = [ops EXCEPT ![i] =
                    [@ EXCEPT !.kind = "send", !.pc = "done",
                              !.beh = [hb |-> "throwSync", err |-> RangeErr],
                              !.ambient = amb, !.carrier = SendHeaders(o),
                              !.span = n + 1, !.handlerCalls = 0,
                              !.outcome = CatchRethrow(RangeErr),
                              !.seenUp = backendUp,
                              !.given = [NoGiven EXCEPT !.options = o, !.after = o,
                                                        !.receiver = "inst",
                                                        !.queue = queue, !.msg = "m1"],
                              !.events = <<"spanStart", "statusSet", "metricRecorded",
                                            "spanEnd">>]]

\* The wrapper installed as prototype.send, called as inst.send(queue, "m1", o).
\* The original send runs in the caller's context: the wrapper does not make
\* the producer span active.  With originalSend null the call itself throws
\* a TypeError inside the try block.
PatchedSend(i, c, o, b, amb, queue) ==
    /\ CanCall(i)
    /\ protoSend[c] = "wrapper"
    /\ LET sp == NewSpan(Len(spans) + 1, amb, "PRODUCER", i)
       IN IF originalSend = "wrapper"
          THEN RecursiveSend(i, amb, o, queue)
          ELSE IF originalSend = "null"
          THEN Called(i, "send", [hb |-> "throwSync", err |-> TypeErr], amb,
                      SendHeaders(o), sp, amb, 0, NoOptions,
                      RabbitMetric(i, "publish"), "R", TRUE,
                      SendGiven(amb, sp, o, "inst", queue, "m1"))
          ELSE Called(i, "send", b, amb, SendHeaders(o), sp, amb, 1,
                      SendPassed(amb, sp, o, "inst", queue, "m1"),
                      RabbitMetric(i, "publish"), "R", TRUE,
                      SendGiven(amb, sp, o, "inst", queue, "m1"))

PatchedSendCall(i) ==
    /\ \E c \in Classes, o \in SendOptions, b \in Behaviours, amb \in Ambients,
          queue \in Queues :
         PatchedSend(i, c, o, b, amb, queue)
    /\ UNCHANGED <<backendUp, isPatched, originalSend, protoSend, logVars, maskVars, moreVars>>

PatchedSendSettle(i) ==
    /\ ops[i].pc = "awaiting"
    /\ ops[i].kind = "send"
    /\ Settled(i, spans[ops[i].span], RabbitMetric(i, "publish"), "R")
    /\ UNCHANGED <<backendUp, isPatched, originalSend, protoSend, logVars, maskVars, moreVars>>

(***************************************************************************)
(* Socket.IO: extractTraceContext, the auto-wrapped handler and            *)
(* wrapSocketHandler                                                       *)
(***************************************************************************)
TpHeader == <<"00", 3, 6, "01">>       \* trace 3, span 6
TpQuery == <<"00", 4, 7, "01">>        \* trace 4, span 7

\* A raw header value is a string (items = <<v>>), an array of strings, or
\* undefined.
RawString(v) == [kind |-> "string", items |-> <<v>>]
RawArray(vs) == [kind |-> "array", items |-> vs]

Absent == [present |-> FALSE, v |-> <<>>]
Given(v) == [present |-> TRUE, v |-> v]

Sockets ==
    { [handshake |-> FALSE, hasHeaders |-> FALSE, headers |-> <<>>,
       qTp |-> Absent, qTs |-> Absent],
      [handshake |-> TRUE, hasHeaders |-> TRUE,
       headers |-> Carrier1("Traceparent", RawArray(<<TpHeader, TpQuery>>)),
       qTp |-> Absent, qTs |-> Absent],
      [handshake |-> TRUE, hasHeaders |-> TRUE,
       headers |-> Carrier1("host", RawString(<<"h">>)),
       qTp |-> Given(TpQuery), qTs |-> Given(<<"qs">>)] }

\* args[0] of the event
Payloads ==
    { [isObject |-> FALSE, hasTrace |-> FALSE, trace |-> EmptyCarrier],
      [isObject |-> TRUE, hasTrace |-> TRUE, trace |-> Carrier1("traceparent", TpCarrier)] }

\* key.toLowerCase() of a header name
LowerName(k) ==
    CASE k = "Traceparent" -> "traceparent"
      [] k = "Tracestate" -> "tracestate"
      [] OTHER -> k

HasHeaderValue(raw) ==
    \/ raw.kind = "string"
    \/ raw.kind = "array" /\ Len(raw.items) > 0

HeadersToCarrier(headers) ==
    LET kept == {k \in DOMAIN headers : HasHeaderValue(headers[k])}
    IN [n \in {LowerName(k) : k \in kept} |->
          headers[CHOOSE k \in kept : LowerName(k) = n].items[1]]

ExtractTraceContext(amb, socket, firstArg) ==
    LET c1 == IF socket.handshake /\ socket.hasHeaders
              THEN HeadersToCarrier(socket.headers) ELSE EmptyCarrier
        c2 == IF firstArg.isObject /\ firstArg.hasTrace
              THEN MergeCarrier(c1, firstArg.trace) ELSE c1
        c3 == IF socket.handshake /\ socket.qTp.present
              THEN MergeCarrier(c2, Carrier1("traceparent", socket.qTp.v)) ELSE c2
        c4 == IF socket.handshake /\ socket.qTs.present
              THEN MergeCarrier(c3, Carrier1("tracestate", socket.qTs.v)) ELSE c3
    IN [carrier |-> c4, ctx |-> PropagationExtract(amb, c4)]

\* wrapSocket: the wrappedHandler registered by the overridden socket.on.
\* The handler runs inside an async arrow function, so a handler that throws
\* before returning a promise is seen as a rejection after the await.
WrappedHandlerCall(i) ==
    /\ CanCall(i)
    /\ \E so \in Sockets, pl \in Payloads, beh \in Behaviours, amb \in Ambients :
         LET x  == ExtractTraceContext(amb, so, pl)
             sp == NewSpan(Len(spans) + 1, x.ctx, "SERVER", i)
         IN Called(i, "wsAuto", beh, amb, x.carrier, sp,
                   HandlerContext(amb, x.ctx, sp), 1, NoOptions,
                   WsMetric(i), "undefined", FALSE, NoGiven)
    /\ UNCHANGED <<backendUp, isPatched, originalSend, protoSend, logVars, maskVars, moreVars>>

WrappedHandlerSettle(i) ==
    /\ ops[i].pc = "awaiting"
    /\ ops[i].kind = "wsAuto"
    /\ Settled(i, spans[ops[i].span], WsMetric(i), "undefined")
    /\ UNCHANGED <<backendUp, isPatched, originalSend, protoSend, logVars, maskVars, moreVars>>

\* wrapSocketHandler: the function it returns.
WrapSocketHandlerCall(i) ==
    /\ CanCall(i)
    /\ \E so \in Sockets, pl \in Payloads, beh \in Behaviours, amb \in Ambients :
         LET x  == ExtractTraceContext(amb, so, pl)
             sp == NewSpan(Len(spans) + 1, x.ctx, "SERVER", i)
         IN Called(i, "wsManual", beh, amb, x.carrier, sp,
                   HandlerContext(amb, x.ctx, sp), 1, NoOptions,
                   WsMetric(i), "R", TRUE, NoGiven)
    /\ UNCHANGED <<backendUp, isPatched, originalSend, protoSend, logVars, maskVars, moreVars>>

WrapSocketHandlerSettle(i) ==
    /\ ops[i].pc = "awaiting"
    /\ ops[i].kind = "wsManual"
    /\ Settled(i, spans[ops[i].span], WsMetric(i), "R")
    /\ UNCHANGED <<backendUp, isPatched, originalSend, protoSend, logVars, maskVars, moreVars>>

\* The telemetry backend becomes reachable or unreachable.
BackendChange ==
    /\ backendUp' = ~backendUp
    /\ UNCHANGED <<traceVars, logVars, maskVars, moreVars>>

(***************************************************************************)
(* The manual helpers: injectRabbitMQContext, extractRabbitMQContext,      *)
(* injectTraceContext, and extractTraceContext on an emitted payload       *)
(***************************************************************************)
\* Contexts that can be active when a helper is called.
TracedSpan == [traceId |-> 8, spanId |-> 18, isRemote |-> FALSE, traceState |-> <<"vs">>]

InjectContexts == {RootContext, AmbientSpan, TracedSpan}

\* Headers a caller hands to injectRabbitMQContext.
HeaderInputs ==
    { EmptyCarrier,
      Carrier1("x-other", <<"v">>),
      Carrier1("traceparent", TpCarrier),
      MergeCarrier(Carrier1("x-other", <<"v">>), Carrier1("tracestate", <<"old">>)) }

\* Sockets by the trace sources their handshake holds.
SocketCombos ==
    Sockets \cup
    { [handshake |-> TRUE, hasHeaders |-> TRUE,
       headers |-> MergeCarrier(Carrier1("Traceparent", RawString(TpHeader)),
                                Carrier1("tracestate", RawString(<<"hs">>))),
       qTp |-> Absent, qTs |-> Absent],
      [handshake |-> TRUE, hasHeaders |-> TRUE,
       headers |-> Carrier1("traceparent", RawString(TpHeader)),
       qTp |-> Given(TpQuery), qTs |-> Absent] }

NoSocket ==
    [handshake |-> FALSE, hasHeaders |-> FALSE, headers |-> <<>>,
     qTp |-> Absent, qTs |-> Absent]

NoPayload == [isObject |-> FALSE, hasTrace |-> FALSE, trace |-> EmptyCarrier]

IdleProp ==
    [step |-> "idle", via |-> "none", ctx |-> RootContext,
     given |-> EmptyCarrier, givenAfter |-> EmptyCarrier, carrier |-> EmptyCarrier,
     payload |-> NoPayload, so |-> NoSocket, amb |-> RootContext,
     extracted |-> EmptyCarrier, out |-> RootContext]

\* injectRabbitMQContext(headers): const enrichedHeaders = { ...headers };
\* propagation.inject(context.active(), enrichedHeaders); return it.
InjectRabbitMQHeapInPlace(ctx, headers) ==
    LET heap == [caller |-> headers, copy |-> headers]
        after == HeapAfterInject(heap, "caller", ctx)
    IN [caller |-> after.caller, returned |-> after.caller]

InjectRabbitMQHeap(ctx, headers) ==
    LET heap == [caller |-> headers, copy |-> headers]
        after == HeapAfterInject(heap, "copy", ctx)
    IN [caller |-> after.caller, returned |-> after.copy]

InjectRabbitMQContext ==
    /\ prop.step = "idle"
    /\ \E ctx \in InjectContexts, h \in HeaderInputs :
         LET r == InjectRabbitMQHeap(ctx, h)
         IN prop' = [IdleProp EXCEPT !.step = "injected", !.via = "rabbit",
                                     !.ctx = ctx, !.given = h,
                                     !.givenAfter = r.caller, !.carrier = r.returned]
    /\ UNCHANGED <<traceVars, backendUp, logVars, maskVars, patchVars, sioVars, restVars>>

\* extractRabbitMQContext(headers) on the headers the injection returned.
ExtractRabbitMQContext ==
    /\ prop.step = "injected"
    /\ prop.via = "rabbit"
    /\ \E amb \in Ambients :
         prop' = [prop EXCEPT !.step = "extracted", !.amb = amb,
                              !.extracted = prop.carrier,
                              !.out = PropagationExtract(amb, prop.carrier)]
    /\ UNCHANGED <<traceVars, backendUp, logVars, maskVars, patchVars, sioVars, restVars>>

\* injectTraceContext(data): { ...data, _trace: carrier }
InjectTraceContextPayload(ctx) ==
    [isObject |-> TRUE, hasTrace |-> TRUE,
     trace |-> PropagationInject(ctx, EmptyCarrier)]

InjectTraceContext ==
    /\ prop.step = "idle"
    /\ \E ctx \in InjectContexts :
         LET pl == InjectTraceContextPayload(ctx)
         IN prop' = [IdleProp EXCEPT !.step = "injected", !.via = "socket",
                                     !.ctx = ctx, !.carrier = pl.trace,
                                     !.payload = pl]
    /\ UNCHANGED <<traceVars, backendUp, logVars, maskVars, patchVars, sioVars, restVars>>

\* extractTraceContext(socket, args) as the event wrappers call it: on the
\* payload injectTraceContext built, or on any other payload.
ExtractTraceContextCall ==
    /\ \/ prop.step = "idle"
       \/ prop.step = "injected" /\ prop.via = "socket"
    /\ \E so \in SocketCombos, amb \in Ambients,
          pl \in (IF prop.step = "idle" THEN Payloads ELSE {prop.payload}) :
         LET x == ExtractTraceContext(amb, so, pl)
         IN prop' = [prop EXCEPT !.step = "extracted",
                                 !.via = IF prop.step = "idle" THEN "event" ELSE "socket",
                                 !.payload = pl, !.so = so, !.amb = amb,
                                 !.extracted = x.carrier, !.out = x.ctx]
    /\ UNCHANGED <<traceVars, backendUp, logVars, maskVars, patchVars, sioVars, restVars>>

\* A send through the patched method, with every options shape.
CarrierSend(i) ==
    /\ \E c \in Classes, o \in SendOptions, amb \in Ambients, queue \in Queues :
         PatchedSend(i, c, o, [hb |-> "resolve", err |-> NoErr], amb, queue)
    /\ UNCHANGED <<backendUp, isPatched, originalSend, protoSend, logVars, maskVars, moreVars>>

(***************************************************************************)
(* initRabbitMQInterceptor, patchRabbitMQ, restoreRabbitMQ                 *)
(***************************************************************************)
MaxLifecycle == 3

LifecycleCall(op, c) == [op |-> op, target |-> c]

NoCall ==
    [op |-> "none", target |-> "none", patchedBefore |-> FALSE,
     originalBefore |-> "null", sendBefore |-> "none",
     warned |-> FALSE, info |-> FALSE, raised |-> FALSE]

\* initRabbitMQInterceptor(RabbitMQClass) with patchRabbitMQ: the module
\* state and the target's prototype.send after the call, and what the call
\* logged.  Reading the prototype of a target without one throws inside the
\* try block and is logged as a warning.
InitRabbitMQRewraps(patched, original, send) ==
    IF send = "noProto"
    THEN [isPatched |-> patched, originalSend |-> original, send |-> send,
          warned |-> TRUE, info |-> FALSE, raised |-> FALSE]
    ELSE [isPatched |-> TRUE,
          originalSend |-> IF send # "missing" THEN send ELSE original,
          send |-> IF send # "missing" THEN "wrapper" ELSE send,
          warned |-> FALSE, info |-> TRUE, raised |-> FALSE]

InitRabbitMQResult(patched, original, send) ==
    IF patched
    THEN [isPatched |-> patched, originalSend |-> original, send |-> send,
          warned |-> FALSE, info |-> FALSE, raised |-> FALSE]
    ELSE IF send = "noProto"
    THEN [isPatched |-> patched, originalSend |-> original, send |-> send,
          warned |-> TRUE, info |-> FALSE, raised |-> FALSE]
    ELSE LET patch == send # "missing" /\ original = "null"
         IN [isPatched |-> TRUE,
             originalSend |-> IF patch THEN send ELSE original,
             send |-> IF patch THEN "wrapper" ELSE send,
             warned |-> FALSE, info |-> TRUE, raised |-> FALSE]

\* restoreRabbitMQ(RabbitMQClass)
RestoreRabbitMQKeepsFlag(patched, original, send) ==
    IF ~patched
    THEN [isPatched |-> patched, originalSend |-> original, send |-> send,
          warned |-> FALSE, info |-> FALSE, raised |-> FALSE]
    ELSE IF send = "noProto"
    THEN [isPatched |-> patched, originalSend |-> original, send |-> send,
          warned |-> FALSE, info |-> FALSE, raised |-> TRUE]
    ELSE [isPatched |-> TRUE,
          originalSend |-> "null",
          send |-> IF original # "null" THEN original ELSE send,
          warned |-> FALSE, info |-> FALSE, raised |-> FALSE]

RestoreRabbitMQResult(patched, original, send) ==
    IF ~patched
    THEN [isPatched |-> patched, originalSend |-> original, send |-> send,
          warned |-> FALSE, info |-> FALSE, raised |-> FALSE]
    ELSE IF send = "noProto"
    THEN [isPatched |-> patched, originalSend |-> original, send |-> send,
          warned |-> FALSE, info |-> FALSE, raised |-> TRUE]
    ELSE [isPatched |-> FALSE,
          originalSend |-> "null",
          send |-> IF original # "null" THEN original ELSE send,
          warned |-> FALSE, info |-> FALSE, raised |-> FALSE]

LifecycleStep(op, c, r) ==
    /\ Len(lifecycle) < MaxLifecycle
    /\ lifecycle' = Append(lifecycle, LifecycleCall(op, c))
    /\ isPatched' = r.isPatched
    /\ originalSend' = r.originalSend
    /\ protoSend' = [protoSend EXCEPT ![c] = r.send]
    /\ lastCall' = [op |-> op, target |-> c, patchedBefore |-> isPatched,
                    originalBefore |-> originalSend, sendBefore |-> protoSend[c],
                    warned |-> r.warned, info |-> r.info, raised |-> r.raised]
    /\ UNCHANGED <<ops, spans, metrics, backendUp, logVars, maskVars, propVars, sioVars, restVars>>

InitRabbitMQInterceptor(c) ==
    LifecycleStep("init", c, InitRabbitMQResult(isPatched, originalSend, protoSend[c]))

RestoreRabbitMQ(c) ==
    LifecycleStep("restore", c, RestoreRabbitMQResult(isPatched, originalSend, protoSend[c]))

\* inst.send(queue, msg) on an instance of a class whose prototype.send is
\* the class's own method: no wrapper runs.
DirectSend(i, b) ==
    /\ CanCall(i)
    /\ ops' = [ops EXCEPT ![i] =
                 [@ EXCEPT !.kind = "direct", !.pc = "done", !.beh = b,
                           !.handlerCalls = 1,
                           !.outcome = IF b.hb = "resolve"
                                       THEN [type |-> "returned", val |-> "R"]
                                       ELSE CatchRethrow(b.err),
                           !.seenUp = backendUp,
                           !.events = <<"handlerStart", "handlerSettled">>]]
    /\ UNCHANGED <<spans, metrics>>

\* inst.send("orders", "m1") on an instance of a class, whatever its
\* prototype.send currently is.
ClassSend(i) ==
    /\ \E c \in Classes, b \in {[hb |-> "resolve", err |-> NoErr],
                               [hb |-> "reject", err |-> ErrBoom]} :
         IF protoSend[c] = "wrapper"
         THEN PatchedSend(i, c, AbsentOptions, b, RootContext, "orders")
         ELSE DirectSend(i, b)
    /\ UNCHANGED <<backendUp, isPatched, originalSend, protoSend, logVars, maskVars, moreVars>>

(***************************************************************************)
(* initSocketIOInterceptor and wrapSocket: the socket.on override          *)
(***************************************************************************)
MaxListeners == 3
MaxHandlers == 3
MaxFires == 2

\* An event name, with its first character.
EvMessage == [name |-> "message", first |-> "m"]
EvInternal == [name |-> "$internal", first |-> "$"]
EvDisconnect == [name |-> "disconnect", first |-> "d"]
EvError == [name |-> "error", first |-> "e"]

Events == {EvMessage, EvInternal, EvDisconnect, EvError}

\* event.startsWith('$') || event === 'disconnect' || event === 'error'
IsReservedEvent(e) == e.first = "$" \/ e.name = "disconnect" \/ e.name = "error"

\* socket.on(event, handler) called on a socket whose on has been overridden
\* layers times: each override hands the handler, wrapped unless the event
\* is reserved, to the on it replaced (originalOn); the innermost is the
\* emitter's own.  wraps counts the wrappedHandlers around the handler.
RECURSIVE RegisterThrough(_, _, _, _)
RegisterThrough(layers, e, wraps, atLayers) ==
    IF layers = 0
    THEN [event |-> e, wraps |-> wraps, layers |-> atLayers]
    ELSE IF IsReservedEvent(e)
    THEN RegisterThrough(layers - 1, e, wraps, atLayers)
    ELSE RegisterThrough(layers - 1, e, wraps + 1, atLayers)

SocketOn(layers, e) == RegisterThrough(layers, e, 0, layers)

\* The events the application's connection listener registers handlers for.
AppEvents == <<EvMessage, EvDisconnect>>

\* The 'connection' listeners run in the order they were registered: the
\* interceptor's calls wrapSocket(socket), the application's registers its
\* handlers with socket.on.
RECURSIVE RunListeners(_, _, _)
RunListeners(ls, layers, handlers) ==
    IF ls = <<>>
    THEN [layers |-> layers, handlers |-> handlers]
    ELSE IF Head(ls) = "interceptor"
    THEN RunListeners(Tail(ls), layers + 1, handlers)
    ELSE RunListeners(Tail(ls), layers,
                      handlers \o [k \in 1..Len(AppEvents) |-> SocketOn(layers, AppEvents[k])])

NoSocketYet == [connected |-> FALSE, layers |-> 0, handlers |-> <<>>, listeners |-> <<>>]

NoFire ==
    [n |-> 0, event |-> EvMessage, wraps |-> 0, layers |-> 0, spans |-> 0,
     metrics |-> 0, successes |-> 0, handlerCalls |-> 0,
     outcome |-> Pending]

\* initSocketIOInterceptor(io): io.on('connection', socket => wrapSocket(socket))
InitSocketIOInterceptor ==
    /\ Len(ioListeners) < MaxListeners
    /\ ioListeners' = Append(ioListeners, "interceptor")
    /\ UNCHANGED <<clientSocket, lastFire, traceVars, backendUp, logVars, maskVars,
                   propVars, patchVars, restVars>>

\* The application: io.on('connection', socket => { socket.on(...) ... })
AppOnConnection ==
    /\ Len(ioListeners) < MaxListeners
    /\ ioListeners' = Append(ioListeners, "app")
    /\ UNCHANGED <<clientSocket, lastFire, traceVars, backendUp, logVars, maskVars,
                   propVars, patchVars, restVars>>

\* A client connects: the server emits 'connection'.
Connect ==
    /\ ~clientSocket.connected
    /\ LET r == RunListeners(ioListeners, 0, <<>>)
       IN clientSocket' = [connected |-> TRUE, layers |-> r.layers,
                     handlers |-> r.handlers, listeners |-> ioListeners]
    /\ UNCHANGED <<ioListeners, lastFire, traceVars, backendUp, logVars, maskVars,
                   propVars, patchVars, restVars>>

\* The application registers one more handler on the connected socket.
SocketOnLater ==
    /\ clientSocket.connected
    /\ Len(clientSocket.handlers) < MaxHandlers
    /\ \E e \in Events :
         clientSocket' = [clientSocket EXCEPT
                            !.handlers = Append(@, SocketOn(clientSocket.layers, e))]
    /\ UNCHANGED <<ioListeners, lastFire, traceVars, backendUp, logVars, maskVars,
                   propVars, patchVars, restVars>>

\* A registered handler is called with the event's arguments: wraps nested
\* wrappedHandlers run around the application's handler, each with the
\* context its caller made active; n is the number of spans present before.
RECURSIVE FireWrapped(_, _, _, _, _)
FireWrapped(wraps, n, amb, pl, beh) ==
    IF wraps = 0
    THEN [spans |-> <<>>, metrics |-> <<>>, hres |-> HandlerResult(beh)]
    ELSE LET x == ExtractTraceContext(amb, NoSocket, pl)
             sp == NewSpan(n + 1, x.ctx, "SERVER", 0)
             inner == FireWrapped(wraps - 1, n + 1, HandlerContext(amb, x.ctx, sp), pl, beh)
             r == GuardedSettle(sp, inner.hres, WsMetric(0), "undefined", backendUp)
         IN [spans |-> <<r.span>> \o inner.spans,
             metrics |-> inner.metrics \o r.recorded,
             hres |-> IF r.outcome.type = "returned"
                      THEN [ok |-> TRUE, val |-> "undefined", err |-> NoErr]
                      ELSE [ok |-> FALSE, val |-> "none",
                            err |-> IF inner.hres.ok THEN MetricsErr ELSE inner.hres.err]]

SuccessCount(ms) == Cardinality({k \in 1..Len(ms) : ms[k].success})

\* The emitter fires an event for which a handler is registered.
FireEvent ==
    /\ clientSocket.connected
    /\ lastFire.n < MaxFires
    /\ \E k \in 1..Len(clientSocket.handlers),
          beh \in {[hb |-> "resolve", err |-> NoErr], [hb |-> "reject", err |-> ErrBoom]} :
         LET h == clientSocket.handlers[k]
             r == FireWrapped(h.wraps, Len(spans), RootContext, NoPayload, beh)
         IN /\ spans' = spans \o r.spans
            /\ metrics' = metrics \o r.metrics
            /\ lastFire' = [n |-> lastFire.n + 1, event |-> h.event, wraps |-> h.wraps,
                            layers |-> h.layers,
                            spans |-> Len(r.spans), metrics |-> Len(r.metrics),
                            successes |-> SuccessCount(r.metrics),
                            handlerCalls |-> 1,
                            outcome |-> IF r.hres.ok
                                        THEN [type |-> "returned", val |-> r.hres.val]
                                        ELSE CatchRethrow(r.hres.err)]
    /\ UNCHANGED <<ops, isPatched, originalSend, protoSend, ioListeners, clientSocket,
                   backendUp, logVars, maskVars, propVars, patchVars, restVars>>

(***************************************************************************)
(* otel-logger (logger/otel-logger.ts): the availability flag and          *)
(* emitOtelLog                                                             *)
(***************************************************************************)
\* emitOtelLog(level, message, attributes): the export is tried; a failure
\* is caught inside, sets the flag to unavailable and is reported as false;
\* a success sets the flag to available.
EmitOtelLog(up) == [success |-> up, flag |-> up, raised |-> FALSE]

\* isOtelLoggerAvailable()
IsOtelLoggerAvailable == otlpAvailable

(***************************************************************************)
(* StructuredLogger                                                        *)
(***************************************************************************)
LogLevels == {"debug", "info", "warn", "error"}

\* LOG_LEVEL_PRIORITY
LogLevelPriority(level) ==
    CASE level = "debug" -> 0
      [] level = "info" -> 1
      [] level = "warn" -> 2
      [] level = "error" -> 3

Environments == {"development", "production", "staging"}

\* The fields the constructor fixes.
LoggerConfigs ==
    [logLevel : LogLevels, enableOtlpLogs : BOOLEAN, enableConsoleLogs : BOOLEAN,
     environment : Environments]

\* if (LOG_LEVEL_PRIORITY[level] < LOG_LEVEL_PRIORITY[this.logLevel]) return
BelowMinimumInclusive(level, minLevel) ==
    LogLevelPriority(level) <= LogLevelPriority(minLevel)

BelowMinimum(level, minLevel) == LogLevelPriority(level) < LogLevelPriority(minLevel)

\* if (this.enableOtlpLogs && isOtelLoggerAvailable())
OtlpGate(enableOtlp, available) == enableOtlp /\ available

\* otlpSuccess = emitOtelLog(...)
OtlpSuccessIgnoresResult(gate, emitted) == gate

OtlpSuccess(gate, emitted) == IF gate THEN emitted.success ELSE FALSE

\* if (this.enableConsoleLogs || (!otlpSuccess && this.enableOtlpLogs))
ShouldWriteConsoleNoFallback(enableConsole, otlpSuccess, enableOtlp) == enableConsole

ShouldWriteConsole(enableConsole, otlpSuccess, enableOtlp) ==
    enableConsole \/ (~otlpSuccess /\ enableOtlp)

\* writeToConsole: the format by environment, the stream by level.
ConsoleFormat(environment) == IF environment = "development" THEN "text" ELSE "json"

ConsoleStream(level) ==
    CASE level = "error" -> "error"
      [] level = "warn" -> "warn"
      [] level = "debug" -> "debug"
      [] OTHER -> "log"

ConsoleLine(level, environment) ==
    [stream |-> ConsoleStream(level), format |-> ConsoleFormat(environment),
     level |-> level]

NoLog ==
    [level |-> "none", dropped |-> FALSE, attempted |-> FALSE, otlpSuccess |-> FALSE,
     threw |-> FALSE, consoleLines |-> 0, flagBefore |-> TRUE, causeBefore |-> "init",
     flagAfter |-> TRUE, up |-> TRUE]

\* writeLog(level, message, meta)
WriteLog(level) ==
    /\ nCalls < MaxCalls
    /\ nCalls' = nCalls + 1
    /\ IF BelowMinimum(level, logger.logLevel)
       THEN /\ lastLog' = [NoLog EXCEPT !.level = level, !.dropped = TRUE,
                                        !.flagBefore = otlpAvailable,
                                        !.causeBefore = flagCause,
                                        !.flagAfter = otlpAvailable, !.up = backendUp]
            /\ UNCHANGED <<otlpAvailable, flagCause, console, otlpLog>>
       ELSE LET gate    == OtlpGate(logger.enableOtlpLogs, IsOtelLoggerAvailable)
                emitted == EmitOtelLog(backendUp)
                raised  == gate /\ emitted.raised
                success == OtlpSuccess(gate, emitted)
                flag    == IF gate THEN emitted.flag ELSE otlpAvailable
                toConsole == /\ ~raised
                             /\ ShouldWriteConsole(logger.enableConsoleLogs, success,
                                                   logger.enableOtlpLogs)
            IN /\ otlpAvailable' = flag
               /\ flagCause' = IF ~gate THEN flagCause
                                ELSE IF emitted.flag THEN "emitOk" ELSE "emitFail"
               /\ otlpLog' = IF gate /\ emitted.success
                             THEN Append(otlpLog, level) ELSE otlpLog
               /\ console' = IF toConsole
                             THEN Append(console, ConsoleLine(level, logger.environment))
                             ELSE console
               /\ lastLog' = [level |-> level, dropped |-> FALSE, attempted |-> gate,
                              otlpSuccess |-> success, threw |-> raised,
                              consoleLines |-> IF toConsole THEN 1 ELSE 0,
                              flagBefore |-> otlpAvailable, causeBefore |-> flagCause,
                              flagAfter |-> flag,
                              up |-> backendUp]
    /\ UNCHANGED <<logger, traceVars, backendUp, maskVars, moreVars>>

LoggerDebug == WriteLog("debug")
LoggerInfo == WriteLog("info")
LoggerWarn == WriteLog("warn")
LoggerError == WriteLog("error")
\* logError(error, meta) writes at level error
LoggerLogError == WriteLog("error")

\* markOtlpUnavailable() / markOtlpAvailable()
MarkOtlpUnavailable ==
    /\ nCalls < MaxCalls
    /\ nCalls' = nCalls + 1
    /\ otlpAvailable' = FALSE
    /\ flagCause' = "mark"
    /\ UNCHANGED <<logger, console, otlpLog, lastLog, traceVars, backendUp, maskVars, moreVars>>

MarkOtlpAvailable ==
    /\ nCalls < MaxCalls
    /\ nCalls' = nCalls + 1
    /\ otlpAvailable' = TRUE
    /\ flagCause' = "mark"
    /\ UNCHANGED <<logger, console, otlpLog, lastLog, traceVars, backendUp, maskVars, moreVars>>

(***************************************************************************)
(* maskSensitiveData                                                       *)
(***************************************************************************)
\* A key is the sequence of its characters.  A JSON value is [t, s, kids]: a
\* string (s its text), null, an object or an array.  kids are the entries
\* [k, val] that Object.entries lists: an object's own keys, an array's
\* indices.
Str(x) == [t |-> "str", s |-> x, kids |-> <<>>]
Null == [t |-> "null", s |-> "", kids |-> <<>>]
Obj(entries) == [t |-> "obj", s |-> "", kids |-> entries]
Arr(entries) == [t |-> "arr", s |-> "", kids |-> entries]

Entry(k, val) == [k |-> k, val |-> val]

\* The index i (from 0) of an array element, as a key.
IndexKey(i) == <<(<<"0", "1", "2", "3">>)[i + 1]>>

\* The array of the given items.
ArrOf(items) == Arr([j \in 1..Len(items) |-> Entry(IndexKey(j - 1), items[j])])

Redacted == Str("[REDACTED]")

LowerChar(c) ==
    CASE c = "P" -> "p"
      [] c = "W" -> "w"
      [] c = "T" -> "t"
      [] OTHER -> c

\* key.toLowerCase()
ToLowerCase(k) == [i \in 1..Len(k) |-> LowerChar(k[i])]

\* s.includes(sub)
Includes(s, sub) ==
    \E i \in 0..(Len(s) - Len(sub)) : SubSeq(s, i + 1, i + Len(sub)) = sub

\* this.sensitiveFields.some(field => lowerKey.includes(field.toLowerCase()))
IsSensitive(key, fields) ==
    \E f \in 1..Len(fields) : Includes(ToLowerCase(key), ToLowerCase(fields[f]))

\* The entries of the masked object: maskSensitiveData builds a plain
\* object whatever it is given (const masked: Record<string, unknown> = {}).
RECURSIVE MaskSensitiveData(_, _)
MaskSensitiveData(data, fields) ==
    [i \in 1..Len(data) |->
       LET key   == data[i].k
           value == data[i].val
       IN IF IsSensitive(key, fields)
          THEN Entry(key, Redacted)
          ELSE IF value.t = "obj"
          THEN Entry(key, Obj(MaskSensitiveData(value.kids, fields)))
          ELSE IF value.t = "arr"
          THEN Entry(key,
                     Arr([j \in 1..Len(value.kids) |->
                            LET item == value.kids[j].val
                            IN Entry(value.kids[j].k,
                                     IF item.t \in {"obj", "arr"}
                                     THEN Obj(MaskSensitiveData(item.kids, fields))
                                     ELSE item)]))
          ELSE Entry(key, value)]

KeyPassword == <<"p", "w">>
KeyUpper == <<"x", "P", "W">>
KeyUser == <<"u">>
KeyToken == <<"t">>

MetaKeys == {KeyPassword, KeyUpper, KeyUser, KeyToken}

Scalars == {Str("abc"), Null}

RECURSIVE JsonValues(_)
JsonValues(d) ==
    IF d = 0
    THEN Scalars
    ELSE LET below == JsonValues(d - 1)
         IN below
            \cup {Obj(<<Entry(k, v)>>) : k \in {KeyPassword, KeyUser}, v \in below}
            \cup {ArrOf(<<v>>) : v \in below}

\* Metadata mappings: one entry, or two entries with different keys.
MetaInputs ==
    {<<Entry(k, v)>> : k \in MetaKeys, v \in JsonValues(MaxDepth)}
    \cup {<<Entry(k1, v1), Entry(k2, v2)>> :
            k1 \in {KeyUpper, KeyUser}, v1 \in JsonValues(MaxDepth),
            k2 \in {KeyToken}, v2 \in JsonValues(1)}

SensitiveInputs == { <<KeyPassword>>, <<<<"P", "w">>, KeyToken>> }

NotMasked == [done |-> FALSE, v |-> <<>>]

\* createLogEntry: const maskedMeta = this.maskSensitiveData(meta)
CreateLogEntry ==
    /\ ~masked.done
    /\ masked' = [done |-> TRUE, v |-> MaskSensitiveData(meta, sensitive)]
    /\ UNCHANGED <<meta, sensitive, traceVars, backendUp, logVars, moreVars>>

(***************************************************************************)
(* A handler that never settles                                            *)
(***************************************************************************)
\* The enclosing operation is abandoned while the handler is suspended (the
\* socket disconnects, the channel closes) and the handler's promise never
\* settles.  wrappedHandler and wrapConsumer stand at their await and have
\* registered nothing for it: no statement of theirs runs.
Abandon(i) ==
    /\ ops[i].pc = "awaiting"
    /\ ops[i].kind \in {"wsAuto", "consume"}
    /\ ops' = [ops EXCEPT ![i].pc = "abandoned"]
    /\ UNCHANGED <<spans, metrics, isPatched, originalSend, protoSend, backendUp,
                   logVars, maskVars, moreVars>>

(***************************************************************************)
(* initStructuredLogger, initObservability, createLogger and the default   *)
(* logger                                                                  *)
(***************************************************************************)
MaxInstances == 3

\* ObservabilityOptions records handed to the init functions.
OptionsProd ==
    [serviceName |-> "svc", environment |-> "production", logLevel |-> "warn",
     sensitiveFields |-> <<"pin">>, enableOtlpLogs |-> FALSE,
     enableConsoleLogs |-> TRUE]

OptionsStaging ==
    [serviceName |-> "api", environment |-> "staging", logLevel |-> "debug",
     sensitiveFields |-> <<"token">>, enableOtlpLogs |-> TRUE,
     enableConsoleLogs |-> FALSE]

InitOptions == {OptionsProd, OptionsStaging}

\* The constructor's fallbacks when opts is {} and the environment variables
\* are not set.
ConstructorDefaults ==
    [serviceName |-> "unknown-service", environment |-> "development",
     logLevel |-> "info", sensitiveFields |-> <<"password">>,
     enableOtlpLogs |-> TRUE, enableConsoleLogs |-> TRUE]

\* let globalOptions = null
GlobalUnset == [set |-> FALSE, v |-> ConstructorDefaults]

\* constructor: opts = options || globalOptions || {}, copied into the
\* readonly fields.
StructuredLoggerFields(own, global) ==
    IF own.set THEN own.v ELSE IF global.set THEN global.v ELSE ConstructorDefaults

\* new StructuredLogger(context, options) when globalOptions is global
NewInstance(name, own, global) ==
    [name |-> name, fields |-> StructuredLoggerFields(own, global),
     afterInit |-> global.set]

\* export const logger = new StructuredLogger(), run when the module loads
DefaultInstance == NewInstance("default", GlobalUnset, GlobalUnset)

NoInstLog ==
    [n |-> 0, level |-> "none", dropped |-> FALSE, fields |-> ConstructorDefaults,
     supplied |-> GlobalUnset, afterInit |-> FALSE]

\* initStructuredLogger(options)
InitStructuredLogger(o) ==
    /\ globalOptions' = [set |-> TRUE, v |-> o]
    /\ UNCHANGED <<instances, lastInstLog>>
    /\ UNCHANGED <<traceVars, backendUp, logVars, maskVars, propVars, patchVars, sioVars,
                   winVars, entryVars, httpVars,
                   tailVars>>

\* initObservability(options): initTracing, initStructuredLogger, initMetrics
InitObservability(o) == InitStructuredLogger(o)

\* createLogger(context)
CreateLogger ==
    /\ Len(instances) < MaxInstances
    /\ instances' = Append(instances, NewInstance("created", GlobalUnset, globalOptions))
    /\ UNCHANGED <<globalOptions, lastInstLog>>
    /\ UNCHANGED <<traceVars, backendUp, logVars, maskVars, propVars, patchVars, sioVars,
                   winVars, entryVars, httpVars,
                   tailVars>>

\* A log call through instance k: the level test of writeLog and the fields
\* createLogEntry, maskSensitiveData and the sinks read, all from this.
InstanceLog(k, level) ==
    /\ k \in 1..Len(instances)
    /\ lastInstLog' = [n |-> k, level |-> level,
                       dropped |-> BelowMinimum(level, instances[k].fields.logLevel),
                       fields |-> instances[k].fields,
                       supplied |-> globalOptions,
                       afterInit |-> instances[k].afterInit]
    /\ UNCHANGED <<globalOptions, instances>>
    /\ UNCHANGED <<traceVars, backendUp, logVars, maskVars, propVars, patchVars, sioVars,
                   winVars, entryVars, httpVars,
                   tailVars>>

(***************************************************************************)
(* WinstonOtelTransport                                                    *)
(***************************************************************************)
TransportConfigs ==
    [environment : Environments, enableOtlp : BOOLEAN, enableConsole : BOOLEAN]

WinstonLevels == {"error", "warning", "info", "verbose"}

\* mapToOtelLevel
MapToOtelLevel(level) ==
    CASE level \in {"error", "crit", "alert", "emerg"} -> "error"
      [] level \in {"warn", "warning"} -> "warn"
      [] level \in {"debug", "silly", "verbose"} -> "debug"
      [] OTHER -> "info"

\* consoleLog: the stream by level
WinstonConsoleStream(level) ==
    CASE level = "error" -> "error"
      [] level \in {"warn", "warning"} -> "warn"
      [] level = "debug" -> "debug"
      [] OTHER -> "log"

\* outputToConsole: the format by environment
WinstonConsoleFormat(environment) ==
    IF environment = "development" THEN "text" ELSE "json"

\* if (this.enableConsole)
WinstonWritesConsole(enableConsole, attempted, emitted) == enableConsole

NoLine == [stream |-> "log", format |-> "text", level |-> "none"]

\* The calls log makes, in order: the scheduling of the 'logged' event, the
\* two sinks when their conditions hold, the callback.
WinstonStepsCallbackFirst(attempted, wrote) ==
    <<"setImmediate", "callback">>
    \o (IF attempted THEN <<"sendToOtlp">> ELSE <<>>)
    \o (IF wrote THEN <<"outputToConsole">> ELSE <<>>)

WinstonSteps(attempted, wrote) ==
    <<"setImmediate">>
    \o (IF attempted THEN <<"sendToOtlp">> ELSE <<>>)
    \o (IF wrote THEN <<"outputToConsole">> ELSE <<>>)
    \o <<"callback">>

NoWinston ==
    [n |-> 0, level |-> "none", attempted |-> FALSE, emitted |-> FALSE,
     wrote |-> FALSE, line |-> NoLine, flagBefore |-> TRUE, up |-> TRUE,
     steps |-> <<>>]

\* WinstonOtelTransport.log(info, callback); sendToOtlp drops the result of
\* emitOtelLog.
WinstonLog(level) ==
    /\ nCalls < MaxCalls
    /\ nCalls' = nCalls + 1
    /\ LET gate    == OtlpGate(transport.enableOtlp, IsOtelLoggerAvailable)
           emitted == EmitOtelLog(backendUp)
           wrote   == WinstonWritesConsole(transport.enableConsole, gate, emitted.success)
           line    == [stream |-> WinstonConsoleStream(level),
                       format |-> WinstonConsoleFormat(transport.environment),
                       level |-> level]
       IN /\ otlpAvailable' = IF gate THEN emitted.flag ELSE otlpAvailable
          /\ flagCause' = IF ~gate THEN flagCause
                          ELSE IF emitted.flag THEN "emitOk" ELSE "emitFail"
          /\ otlpLog' = IF gate /\ emitted.success
                        THEN Append(otlpLog, MapToOtelLevel(level)) ELSE otlpLog
          /\ console' = IF wrote THEN Append(console, line) ELSE console
          /\ lastWinston' = [n |-> nCalls + 1, level |-> level, attempted |-> gate,
                             emitted |-> gate /\ emitted.success, wrote |-> wrote,
                             line |-> IF wrote THEN line ELSE NoLine,
                             flagBefore |-> otlpAvailable, up |-> backendUp,
                             steps |-> WinstonSteps(gate, wrote)]
    /\ UNCHANGED <<logger, lastLog, transport>>
    /\ UNCHANGED <<traceVars, backendUp, maskVars, propVars, patchVars, sioVars,
                   cfgVars, entryVars, httpVars,
                   tailVars>>

(***************************************************************************)
(* createLogEntry: the trace stamp of a log entry                          *)
(***************************************************************************)
MaxEntries == 2

\* getTraceContextInfo(): the ids of the span of the active context, absent
\* (0) when no span is active.
GetTraceContextInfo(active) == [traceId |-> active.traceId, spanId |-> active.spanId]

\* if (traceContext.traceId) entry.trace_id = ...; if (traceContext.spanId)
\* entry.span_id = ...
EntryTraceIdOnly(info) ==
    [hasTraceId |-> info.traceId # 0, trace_id |-> info.traceId,
     hasSpanId |-> FALSE, span_id |-> 0]

EntryTrace(info) ==
    [hasTraceId |-> info.traceId # 0, trace_id |-> info.traceId,
     hasSpanId |-> info.spanId # 0, span_id |-> info.spanId]

NoEntry ==
    [n |-> 0, site |-> "none", op |-> 0, active |-> RootContext,
     stamp |-> EntryTrace(GetTraceContextInfo(RootContext))]

\* logger.info(...) called by the handler that wrapConsumer runs inside
\* context.with(trace.setSpan(parentContext, span), ...)
HandlerLog(i) ==
    /\ lastEntry.n < MaxEntries
    /\ ops[i].pc = "awaiting"
    /\ ops[i].kind = "consume"
    /\ lastEntry' = [n |-> lastEntry.n + 1, site |-> "handler", op |-> i,
                     active |-> ops[i].handlerCtx,
                     stamp |-> EntryTrace(GetTraceContextInfo(ops[i].handlerCtx))]
    /\ UNCHANGED <<traceVars, backendUp, logVars, maskVars, propVars, patchVars, sioVars,
                   cfgVars, winVars, httpVars,
                   tailVars>>

\* logger.info(...) called outside every guarded operation, with amb active
OutsideLog(amb) ==
    /\ lastEntry.n < MaxEntries
    /\ lastEntry' = [n |-> lastEntry.n + 1, site |-> "outside", op |-> 0,
                     active |-> amb,
                     stamp |-> EntryTrace(GetTraceContextInfo(amb))]
    /\ UNCHANGED <<traceVars, backendUp, logVars, maskVars, propVars, patchVars, sioVars,
                   cfgVars, winVars, httpVars,
                   tailVars>>

(***************************************************************************)
(* httpMetricsMiddleware                                                   *)
(***************************************************************************)
MaxReqs == 2
MaxClock == 2

ReqIds == 1..MaxReqs

\* A path is the sequence of its characters.
Health == <<"/", "h", "e", "a", "l", "t", "h">>
Ready == <<"/", "r", "e", "a", "d", "y">>
MetricsPath == <<"/", "m", "e", "t", "r", "i", "c", "s">>
Favicon == <<"/", "f", "a", "v", "i", "c", "o", "n", ".", "i", "c", "o">>
Users == <<"/", "u", "s", "e", "r", "s">>
Api == <<"/", "a", "p", "i">>
Uuid ==
    <<"1", "2", "3", "e", "4", "5", "6", "7", "-", "e", "8", "9", "b", "-",
      "1", "2", "d", "3", "-", "a", "4", "5", "6", "-",
      "4", "2", "6", "6", "1", "4", "1", "7", "4", "0", "0", "0">>
IdMark == <<":", "i", "d">>

Paths ==
    { Health, Health \o <<"z">>, Health \o <<"c", "h", "e", "c", "k">>, Ready,
      MetricsPath \o <<"/", "x">>, Favicon,
      Users, Users \o <<"/", "4", "2">>, Api \o Health,
      Users \o <<"/">> \o Uuid, Users \o <<"/", "4", "2", "a", "b">> }

Methods == {"GET", "POST"}
StatusCodes == {200, 404, 500}

\* the route template the router matched (req.route.path), empty when none
RouteTemplates == {<<>>, Users \o <<"/">> \o IdMark}

StartsWith(path, prefix) ==
    /\ Len(prefix) <= Len(path)
    /\ \A k \in 1..Len(prefix) : path[k] = prefix[k]

\* const ignoredPaths = [...]
IgnoredPaths == {Health, Health \o <<"z">>, Ready, MetricsPath, Favicon}

\* shouldIgnore(path): ignoredPaths.some(ignored => path.startsWith(ignored))
ShouldIgnoreExact(path) == path \in IgnoredPaths

ShouldIgnore(path) == \E ignored \in IgnoredPaths : StartsWith(path, ignored)

Digits == {"0", "1", "2", "3", "4", "5", "6", "7", "8", "9"}
HexDigits == Digits \cup {"a", "b", "c", "d", "e", "f", "A", "B", "C", "D", "E", "F"}

\* /[0-9a-f]{8}-[0-9a-f]{4}-[0-9a-f]{4}-[0-9a-f]{4}-[0-9a-f]{12}/i matches
\* the 36 characters of s that start at position p
MatchesUuidAt(s, p) ==
    /\ p + 35 <= Len(s)
    /\ \A k \in 0..35 :
         IF k \in {8, 13, 18, 23} THEN s[p + k] = "-" ELSE s[p + k] \in HexDigits

\* .replace(/<uuid>/gi, ':id'): every match, left to right, from position p
RECURSIVE ReplaceUuidFrom(_, _)
ReplaceUuidFrom(s, p) ==
    IF p > Len(s) THEN <<>>
    ELSE IF MatchesUuidAt(s, p) THEN IdMark \o ReplaceUuidFrom(s, p + 36)
    ELSE <<s[p]>> \o ReplaceUuidFrom(s, p + 1)

\* \d+ : the number of digits of s in a row from position p
RECURSIVE DigitRun(_, _)
DigitRun(s, p) ==
    IF p > Len(s) THEN 0
    ELSE IF s[p] \in Digits THEN 1 + DigitRun(s, p + 1)
    ELSE 0

\* .replace(/\/\d+/g, '/:id'): every match, left to right, from position p
RECURSIVE ReplaceNumericFrom(_, _)
ReplaceNumericFrom(s, p) ==
    IF p > Len(s) THEN <<>>
    ELSE IF s[p] = "/" /\ DigitRun(s, p + 1) > 0
    THEN <<"/">> \o IdMark \o ReplaceNumericFrom(s, p + 1 + DigitRun(s, p + 1))
    ELSE <<s[p]>> \o ReplaceNumericFrom(s, p + 1)

\* getRoute(req): req.route.path when the router matched, else req.path
\* with ids replaced.
GetRoute(req) ==
    IF req.route # <<>>
    THEN req.route
    ELSE ReplaceNumericFrom(ReplaceUuidFrom(req.path, 1), 1)

IdleReq ==
    [pc |-> "idle", path |-> <<>>, method |-> "GET", statusCode |-> 200, route |-> <<>>,
     startTime |-> 0, listeners |-> 0, nextCalls |-> 0, entryStatus |-> 200,
     finishedAt |-> 0]

\* The attributes of the record: read when the 'finish' listener runs.
HttpRecordEntryStatus(req, r, now) ==
    [req |-> r, method |-> req.method, route |-> GetRoute(req),
     statusCode |-> req.entryStatus, durationMs |-> now - req.startTime]

HttpRecord(req, r, now) ==
    [req |-> r, method |-> req.method, route |-> GetRoute(req),
     statusCode |-> req.statusCode, durationMs |-> now - req.startTime]

\* httpMetricsMiddleware(req, res, next)
HttpMetricsMiddleware(r) ==
    /\ reqs[r].pc = "idle"
    /\ IF r = 1 THEN TRUE ELSE reqs[r - 1].pc # "idle"
    /\ \E path \in Paths, method \in Methods :
         reqs' = [reqs EXCEPT ![r] =
                    IF ShouldIgnore(path)
                    THEN [@ EXCEPT !.pc = "handling", !.path = path, !.method = method,
                                   !.nextCalls = @ + 1]
                    ELSE [@ EXCEPT !.pc = "handling", !.path = path, !.method = method,
                                   !.startTime = clock, !.listeners = @ + 1,
                                   !.nextCalls = @ + 1]]
    /\ UNCHANGED <<httpMetrics, clock>>
    /\ UNCHANGED <<traceVars, backendUp, logVars, maskVars, propVars, patchVars, sioVars,
                   cfgVars, winVars, entryVars,
                   tailVars>>

\* The router matches a route and the handler sets the status, after the
\* middleware has returned.
RouteHandler(r) ==
    /\ reqs[r].pc = "handling"
    /\ \E route \in RouteTemplates, code \in StatusCodes :
         /\ route # <<>> => reqs[r].path = Users \o <<"/", "4", "2">>
         /\ reqs' = [reqs EXCEPT ![r].route = route, ![r].statusCode = code,
                                 ![r].pc = "responding"]
    /\ UNCHANGED <<httpMetrics, clock>>
    /\ UNCHANGED <<traceVars, backendUp, logVars, maskVars, propVars, patchVars, sioVars,
                   cfgVars, winVars, entryVars,
                   tailVars>>

\* res emits 'finish': every listener registered with res.on('finish') runs.
Finish(r) ==
    /\ reqs[r].pc = "responding"
    /\ reqs' = [reqs EXCEPT ![r].pc = "finished", ![r].finishedAt = clock]
    /\ httpMetrics' = httpMetrics
                      \o [k \in 1..reqs[r].listeners |-> HttpRecord(reqs[r], r, clock)]
    /\ UNCHANGED clock
    /\ UNCHANGED <<traceVars, backendUp, logVars, maskVars, propVars, patchVars, sioVars,
                   cfgVars, winVars, entryVars,
                   tailVars>>

\* The connection closes before the response was sent: 'close' without
\* 'finish'.
CloseEarly(r) ==
    /\ reqs[r].pc \in {"handling", "responding"}
    /\ reqs' = [reqs EXCEPT ![r].pc = "closed"]
    /\ UNCHANGED <<httpMetrics, clock>>
    /\ UNCHANGED <<traceVars, backendUp, logVars, maskVars, propVars, patchVars, sioVars,
                   cfgVars, winVars, entryVars,
                   tailVars>>

\* Time passes.
Tick ==
    /\ clock < MaxClock
    /\ clock' = clock + 1
    /\ UNCHANGED <<reqs, httpMetrics>>
    /\ UNCHANGED <<traceVars, backendUp, logVars, maskVars, propVars, patchVars, sioVars,
                   cfgVars, winVars, entryVars,
                   tailVars>>

(***************************************************************************)
(* The fields of a log entry: createLogEntry and WinstonOtelTransport.log  *)
(***************************************************************************)
KeyTimestamp == <<"t", "i", "m", "e", "s", "t", "a", "m", "p">>
KeyLevel == <<"l", "e", "v", "e", "l">>
KeyMessage == <<"m", "e", "s", "s", "a", "g", "e">>
KeyService == <<"s", "e", "r", "v", "i", "c", "e">>
KeyEnvironment == <<"e", "n", "v", "i", "r", "o", "n", "m", "e", "n", "t">>
KeyTraceId == <<"t", "r", "a", "c", "e", "_", "i", "d">>
KeySpanId == <<"s", "p", "a", "n", "_", "i", "d">>
KeyContext == <<"c", "o", "n", "t", "e", "x", "t">>
KeySplat == <<"s", "p", "l", "a", "t">>

Undefined == [t |-> "undefined", s |-> "", kids |-> <<>>]

HasKey(obj, k) == \E i \in 1..Len(obj) : obj[i].k = k

\* obj[k], Undefined when obj has no such key
Get(obj, k) ==
    IF HasKey(obj, k) THEN obj[CHOOSE i \in 1..Len(obj) : obj[i].k = k].val
    ELSE Undefined

\* Object.assign(target, source): each own entry of source is written to
\* target, replacing the value of a key target already has.
RECURSIVE ObjectAssign(_, _)
ObjectAssign(target, source) ==
    IF source = <<>> THEN target
    ELSE LET e == Head(source)
             written == IF HasKey(target, e.k)
                        THEN [i \in 1..Len(target) |->
                                IF target[i].k = e.k THEN e ELSE target[i]]
                        ELSE Append(target, e)
         IN ObjectAssign(written, Tail(source))

\* Object.assign that leaves the keys target already has alone
ObjectAssignNewKeys(target, source) ==
    ObjectAssign(target, SelectSeq(source, LAMBDA e : ~HasKey(target, e.k)))

\* What the logger itself puts into the entry before the metadata.
\* traced: getTraceContextInfo() gave a trace id and a span id;
\* ctx: the logger's context, "" when it has none.
OwnFields(timestamp, level, message, traced, ctx) ==
    <<Entry(KeyTimestamp, Str(timestamp)), Entry(KeyLevel, Str(level)),
      Entry(KeyMessage, Str(message)), Entry(KeyService, Str("orders-api")),
      Entry(KeyEnvironment, Str("production"))>>
    \o (IF traced THEN <<Entry(KeyTraceId, Str("trace-1")), Entry(KeySpanId, Str("span-1"))>>
        ELSE <<>>)
    \o (IF ctx # "" THEN <<Entry(KeyContext, Str(ctx))>> ELSE <<>>)

\* createLogEntry(level, message, meta); given is whether meta was passed
CreateLogEntryFields(own, given, metadata, fields) ==
    IF given THEN ObjectAssign(own, MaskSensitiveData(metadata, fields)) ELSE own

\* the attributes handed to emitOtelLog:
\* {...entry, timestamp: undefined, level: undefined, message: undefined}
RemoteAttributes(entry) ==
    ObjectAssign(entry, <<Entry(KeyTimestamp, Undefined), Entry(KeyLevel, Undefined),
                          Entry(KeyMessage, Undefined)>>)

\* extractMeta(info): the string keys of info other than level, message,
\* timestamp and splat
ExtractMeta(info) ==
    SelectSeq(info, LAMBDA e : e.k \notin {KeyLevel, KeyMessage, KeyTimestamp, KeySplat})

\* WinstonOtelTransport.log: the entry built from info
WinstonLogEntry(own, info, fields) ==
    LET extracted == ExtractMeta(info)
    IN IF Len(extracted) > 0
       THEN ObjectAssign(own, MaskSensitiveData(extracted, fields))
       ELSE own

\* Metadata mappings for the entry: one key, or the key "u" and one more.
FieldKeys ==
    {KeyTimestamp, KeyLevel, KeyMessage, KeyService, KeyEnvironment, KeyTraceId,
     KeySpanId, KeyContext, KeyUser, KeyPassword}

FieldMetas ==
    {<<Entry(k, Str("from-meta"))>> : k \in FieldKeys}
    \cup {<<Entry(KeyUser, Str("ann")), Entry(k, Str("from-meta"))>> :
            k \in FieldKeys \ {KeyUser}}

NoFields ==
    [writer |-> "none", given |-> FALSE, meta |-> <<>>, own |-> <<>>, entry |-> <<>>,
     remoteLevel |-> "", remoteMessage |-> "", remote |-> <<>>]

\* logger.<level>(message, meta) up to the entry and the remote attributes
StructuredEntry ==
    /\ \E level \in {"info", "error"}, traced \in BOOLEAN, ctx \in {"", "Orders"},
          given \in BOOLEAN, metadata \in FieldMetas :
         LET own   == OwnFields("now", level, "order created", traced, ctx)
             entry == CreateLogEntryFields(own, given, metadata, <<KeyPassword>>)
         IN lastFields' = [writer |-> "structured", given |-> given,
                           meta |-> IF given THEN metadata ELSE <<>>,
                           own |-> own, entry |-> entry,
                           remoteLevel |-> level, remoteMessage |-> "order created",
                           remote |-> RemoteAttributes(entry)]
    /\ UNCHANGED <<traceVars, backendUp, logVars, maskVars, propVars, patchVars, sioVars,
                   cfgVars, winVars, entryVars, httpVars, lastError>>

\* WinstonOtelTransport.log(info, callback) up to the entry and the remote
\* attributes; info holds level, message and the metadata keys, and its
\* timestamp, when it has one, is the entry's timestamp.
WinstonEntry ==
    /\ \E level \in {"info", "error"}, traced \in BOOLEAN, metadata \in FieldMetas :
         LET stamp == Get(metadata, KeyTimestamp)
             info  == ObjectAssignNewKeys(<<Entry(KeyLevel, Str(level)),
                                            Entry(KeyMessage, Str("order created"))>>,
                                          metadata)
             own   == OwnFields(IF stamp.t = "str" THEN stamp.s ELSE "now",
                                Get(info, KeyLevel).s, Get(info, KeyMessage).s,
                                traced, "")
             entry == WinstonLogEntry(own, info, <<KeyPassword>>)
         IN lastFields' = [writer |-> "winston", given |-> TRUE, meta |-> metadata,
                           own |-> own, entry |-> entry,
                           remoteLevel |-> MapToOtelLevel(level),
                           remoteMessage |-> Get(entry, KeyMessage).s,
                           remote |-> RemoteAttributes(entry)]
    /\ UNCHANGED <<traceVars, backendUp, logVars, maskVars, propVars, patchVars, sioVars,
                   cfgVars, winVars, entryVars, httpVars, lastError>>

(***************************************************************************)
(* observabilityErrorMiddleware                                            *)
(***************************************************************************)
\* enum ErrorType
ErrorTypeAxios == "AxiosError"
ErrorTypePrismaKnown == "PrismaClientKnownRequestError"
ErrorTypeGeneric == "Error"

\* An optional string property of the error object.
NoCode == [has |-> FALSE, v |-> ""]
Code(v) == [has |-> TRUE, v |-> v]

\* The error objects handed to the middleware, by their duck-typed markers:
\* isAxiosError is "absent", "false" or "true"; responseStatus and status are
\* 0 when the error has no response.status / no status.
ErrorInputs ==
    [isAxiosError : {"absent", "false", "true"}, responseStatus : {0, 502},
     code : {NoCode, Code("P2002"), Code("ECONNABORTED")}, clientVersion : BOOLEAN,
     name : {"Error", "PrismaClientKnownRequestError"}, status : {0, 404},
     message : {"boom"}]

\* isAxiosError(error)
IsAxiosError(error) == error.isAxiosError = "true"

\* isPrismaKnownRequestError(error)
IsPrismaKnownRequestError(error) ==
    /\ error.code.has
    /\ error.clientVersion
    /\ error.name = "PrismaClientKnownRequestError"

\* classifyError(error)
ClassifyError(error) ==
    IF IsAxiosError(error) THEN ErrorTypeAxios
    ELSE IF IsPrismaKnownRequestError(error) THEN ErrorTypePrismaKnown
    ELSE ErrorTypeGeneric

\* String(n) for the status numbers of the model
StringOf(n) ==
    CASE n = 404 -> "404"
      [] n = 500 -> "500"
      [] n = 502 -> "502"
      [] OTHER -> "0"

\* String(error.response?.status || error.code || 'unknown')
AxiosErrorCode(error) ==
    IF error.responseStatus # 0 THEN StringOf(error.responseStatus)
    ELSE IF error.code.has /\ error.code.v # "" THEN error.code.v
    ELSE "unknown"

\* let errorCode: undefined unless one of the two branches assigns it
ErrorCode(error) ==
    IF IsPrismaKnownRequestError(error) THEN Code(error.code.v)
    ELSE IF IsAxiosError(error) THEN Code(AxiosErrorCode(error))
    ELSE NoCode

\* const statusCode = error.status || 500
ErrorStatusCodeAlways500(error) == 500

ErrorStatusCode(error) == IF error.status # 0 THEN error.status ELSE 500

\* The span of the active context before the middleware runs.
RequestSpan == NewSpan(1, RootContext, "SERVER", 0)

NoError ==
    [n |-> 0, error |-> [isAxiosError |-> "absent", responseStatus |-> 0, code |-> NoCode,
                         clientVersion |-> FALSE, name |-> "Error", status |-> 0,
                         message |-> ""],
     hasSpan |-> FALSE, span |-> RequestSpan, spanErrorType |-> "",
     errorMetrics |-> <<>>, logs |-> <<>>, responses |-> <<>>, raised |-> FALSE]

\* observabilityErrorMiddleware(error, req, res, next); hasSpan is whether
\* trace.getSpan(otelContext.active()) gave a span, minLevel the log level
\* the 'ErrorHandler' logger was constructed with.
ObservabilityErrorMiddleware ==
    /\ \E error \in ErrorInputs, hasSpan \in BOOLEAN, minLevel \in LogLevels :
         LET errorType == ClassifyError(error)
             span      == IF hasSpan
                          THEN SpanSetStatus(SpanRecordException(RequestSpan, error),
                                             "ERROR", error.message)
                          ELSE RequestSpan
             metric    == [type |-> errorType, context |-> "http",
                           code |-> ErrorCode(error)]
             raised    == MetricsRaises(backendUp)
             logged    == ~raised /\ ~BelowMinimum("error", minLevel)
         IN lastError' =
               [n |-> 1, error |-> error, hasSpan |-> hasSpan, span |-> span,
                spanErrorType |-> IF hasSpan THEN errorType ELSE "",
                errorMetrics |-> IF raised THEN <<>> ELSE <<metric>>,
                logs |-> IF logged
                         THEN <<[level |-> "error", error_type |-> errorType,
                                 error_name |-> error.name,
                                 error_message |-> error.message]>>
                         ELSE <<>>,
                responses |-> IF raised THEN <<>>
                              ELSE <<[status |-> ErrorStatusCode(error),
                                      message |-> error.message, type |-> errorType]>>,
                raised |-> raised]
    /\ UNCHANGED <<traceVars, backendUp, logVars, maskVars, propVars, patchVars, sioVars,
                   cfgVars, winVars, entryVars, httpVars, lastFields>>

(***************************************************************************)
(* Specifications                                                          *)
(***************************************************************************)
\* The interceptors have been initialised on the RabbitMQ class, no guarded
\* operation has been invoked yet.
TraceInit ==
    /\ ops = [i \in OpIds |-> IdleOp]
    /\ spans = <<>>
    /\ metrics = <<>>
    /\ isPatched = TRUE
    /\ originalSend = "orig"
    /\ protoSend = [c \in Targets |-> IF c \in Classes THEN "wrapper"
                                      ELSE UnpatchedSend(c)]

DefaultLogger ==
    [logLevel |-> "info", enableOtlpLogs |-> TRUE, enableConsoleLogs |-> TRUE,
     environment |-> "development"]

LogIdle ==
    /\ otlpAvailable = TRUE
    /\ flagCause = "init"
    /\ console = <<>>
    /\ otlpLog = <<>>
    /\ lastLog = NoLog
    /\ nCalls = 0

MaskIdle ==
    /\ meta = <<>>
    /\ sensitive = <<>>
    /\ masked = NotMasked

\* The module as loaded: only the default logger exists, no request is in
\* flight.
RestIdle ==
    /\ globalOptions = GlobalUnset
    /\ instances = <<DefaultInstance>>
    /\ lastInstLog = NoInstLog
    /\ transport = [environment |-> "development", enableOtlp |-> TRUE,
                    enableConsole |-> TRUE]
    /\ lastWinston = NoWinston
    /\ lastEntry = NoEntry
    /\ reqs = [r \in ReqIds |-> IdleReq]
    /\ httpMetrics = <<>>
    /\ clock = 0
    /\ lastFields = NoFields
    /\ lastError = NoError

\* No helper has been called, no client has connected; as TraceInit has it,
\* initRabbitMQInterceptor has been called once on the class.
MoreIdle ==
    /\ prop = IdleProp
    /\ lifecycle = <<LifecycleCall("init", "RabbitMQ")>>
    /\ lastCall = [NoCall EXCEPT !.op = "init", !.target = "RabbitMQ",
                                 !.sendBefore = "orig", !.info = TRUE]
    /\ ioListeners = <<>>
    /\ clientSocket = NoSocketYet
    /\ lastFire = NoFire
    /\ RestIdle

Init ==
    /\ TraceInit
    /\ backendUp = TRUE
    /\ logger = DefaultLogger
    /\ LogIdle
    /\ MaskIdle
    /\ MoreIdle

Next ==
    \/ \E i \in OpIds : WrapConsumerCall(i)
    \/ \E i \in OpIds : WrapConsumerSettle(i)
    \/ \E i \in OpIds : PatchedSendCall(i)
    \/ \E i \in OpIds : PatchedSendSettle(i)
    \/ \E i \in OpIds : WrappedHandlerCall(i)
    \/ \E i \in OpIds : WrappedHandlerSettle(i)
    \/ \E i \in OpIds : WrapSocketHandlerCall(i)
    \/ \E i \in OpIds : WrapSocketHandlerSettle(i)
    \/ BackendChange

Spec == Init /\ [][Next]_vars

\* A logger constructed with any configuration; the flag starts available.
InitLog ==
    /\ TraceInit
    /\ backendUp = TRUE
    /\ logger \in LoggerConfigs
    /\ LogIdle
    /\ MaskIdle
    /\ MoreIdle

NextLog ==
    \/ LoggerDebug
    \/ LoggerInfo
    \/ LoggerWarn
    \/ LoggerError
    \/ LoggerLogError
    \/ MarkOtlpUnavailable
    \/ MarkOtlpAvailable
    \/ BackendChange

SpecLog == InitLog /\ [][NextLog]_vars

InitMask ==
    /\ TraceInit
    /\ backendUp = TRUE
    /\ logger = DefaultLogger
    /\ LogIdle
    /\ meta \in MetaInputs
    /\ sensitive \in SensitiveInputs
    /\ masked = NotMasked
    /\ MoreIdle

NextMask == CreateLogEntry

SpecMask == InitMask /\ [][NextMask]_vars

\* The manual inject / extract helpers and sends through the patched method.
NextCarrier ==
    \/ InjectRabbitMQContext
    \/ ExtractRabbitMQContext
    \/ InjectTraceContext
    \/ ExtractTraceContextCall
    \/ \E i \in OpIds : CarrierSend(i)
    \/ \E i \in OpIds : PatchedSendSettle(i)

SpecCarrier == Init /\ [][NextCarrier]_vars

\* The module as loaded: nothing patched, no lifecycle call made yet.
InitPatch ==
    /\ ops = [i \in OpIds |-> IdleOp]
    /\ spans = <<>>
    /\ metrics = <<>>
    /\ isPatched = FALSE
    /\ originalSend = "null"
    /\ protoSend = [c \in Targets |-> UnpatchedSend(c)]
    /\ backendUp = TRUE
    /\ logger = DefaultLogger
    /\ LogIdle
    /\ MaskIdle
    /\ prop = IdleProp
    /\ lifecycle = <<>>
    /\ lastCall = NoCall
    /\ ioListeners = <<>>
    /\ clientSocket = NoSocketYet
    /\ lastFire = NoFire
    /\ RestIdle

NextPatch ==
    \/ \E c \in Targets : InitRabbitMQInterceptor(c)
    \/ \E c \in Targets : RestoreRabbitMQ(c)
    \/ \E i \in OpIds : ClassSend(i)
    \/ \E i \in OpIds : PatchedSendSettle(i)

SpecPatch == InitPatch /\ [][NextPatch]_vars

\* The Socket.IO server, one client and the events fired on its socket.
NextSocket ==
    \/ InitSocketIOInterceptor
    \/ AppOnConnection
    \/ Connect
    \/ SocketOnLater
    \/ FireEvent

SpecSocket == Init /\ [][NextSocket]_vars

\* Socket handlers and consumers whose enclosing operation may be abandoned.
\* A handler that settles has its continuation run: the settle steps are
\* weakly fair.
NextAbandon ==
    \/ \E i \in OpIds : WrappedHandlerCall(i)
    \/ \E i \in OpIds : WrappedHandlerSettle(i)
    \/ \E i \in OpIds : WrapConsumerCall(i)
    \/ \E i \in OpIds : WrapConsumerSettle(i)
    \/ \E i \in OpIds : Abandon(i)

SpecAbandon ==
    /\ Init
    /\ [][NextAbandon]_vars
    /\ \A i \in OpIds : WF_vars(WrappedHandlerSettle(i))
    /\ \A i \in OpIds : WF_vars(WrapConsumerSettle(i))

\* The logger module: init calls, createLogger and log calls through the
\* instances.
NextConfig ==
    \/ \E o \in InitOptions : InitStructuredLogger(o)
    \/ \E o \in InitOptions : InitObservability(o)
    \/ CreateLogger
    \/ \E k \in 1..MaxInstances, level \in LogLevels : InstanceLog(k, level)

SpecConfig == Init /\ [][NextConfig]_vars

\* A StructuredLogger and a WinstonOtelTransport with any configuration,
\* sharing the availability flag and the console.
InitWinston ==
    /\ TraceInit
    /\ backendUp = TRUE
    /\ logger \in {c \in LoggerConfigs : c.logLevel = "info"}
    /\ LogIdle
    /\ MaskIdle
    /\ prop = IdleProp
    /\ lifecycle = <<LifecycleCall("init", "RabbitMQ")>>
    /\ lastCall = [NoCall EXCEPT !.op = "init", !.target = "RabbitMQ",
                                 !.sendBefore = "orig", !.info = TRUE]
    /\ ioListeners = <<>>
    /\ clientSocket = NoSocketYet
    /\ lastFire = NoFire
    /\ globalOptions = GlobalUnset
    /\ instances = <<DefaultInstance>>
    /\ lastInstLog = NoInstLog
    /\ transport \in TransportConfigs
    /\ lastWinston = NoWinston
    /\ lastEntry = NoEntry
    /\ reqs = [r \in ReqIds |-> IdleReq]
    /\ httpMetrics = <<>>
    /\ clock = 0
    /\ lastFields = NoFields
    /\ lastError = NoError

NextWinston ==
    \/ \E level \in WinstonLevels : WinstonLog(level)
    \/ LoggerInfo
    \/ LoggerError
    \/ MarkOtlpUnavailable
    \/ MarkOtlpAvailable
    \/ BackendChange

SpecWinston == InitWinston /\ [][NextWinston]_vars

\* Consumers whose handlers log, and log calls outside every operation.
NextEntry ==
    \/ \E i \in OpIds : WrapConsumerCall(i)
    \/ \E i \in OpIds : WrapConsumerSettle(i)
    \/ \E i \in OpIds : HandlerLog(i)
    \/ \E amb \in Ambients : OutsideLog(amb)

SpecEntry == Init /\ [][NextEntry]_vars

\* Requests through httpMetricsMiddleware.
NextHttp ==
    \/ \E r \in ReqIds : HttpMetricsMiddleware(r)
    \/ \E r \in ReqIds : RouteHandler(r)
    \/ \E r \in ReqIds : Finish(r)
    \/ \E r \in ReqIds : CloseEarly(r)
    \/ Tick

SpecHttp == Init /\ [][NextHttp]_vars

\* Log entries built from metadata, by both loggers.
NextFields ==
    \/ StructuredEntry
    \/ WinstonEntry

SpecFields == Init /\ [][NextFields]_vars

\* Errors reaching the error middleware.
NextError ==
    \/ ObservabilityErrorMiddleware
    \/ BackendChange

SpecError == Init /\ [][NextError]_vars

(***************************************************************************)
(* Properties                                                              *)
(***************************************************************************)
Started(i) == ops[i].pc # "idle"
Done(i) == ops[i].pc = "done"
SpanOf(i) == spans[ops[i].span]
Failed(i) == ops[i].beh.hb # "resolve"

\* C1: the span a guarded operation started is ended exactly once when its
\* handler has resolved, thrown or rejected: end() has been called once on
\* it, and on no span is end() called twice or before the handler settles.
C1_SpanEndedExactlyOnce ==
    \A i \in OpIds :
        /\ Done(i) => SpanOf(i).endCalls = 1 /\ SpanOf(i).ended
        /\ ops[i].pc = "awaiting" => SpanOf(i).endCalls = 0

C1_Witness ==
    /\ Done(1) /\ ops[1].beh.hb = "throwSync" /\ SpanOf(1).endCalls = 1
    /\ Done(2) /\ ops[2].beh.hb = "reject" /\ SpanOf(2).endCalls = 1

\* C2: when the handler of a guarded operation throws or rejects with any
\* value, the span has error status with the value's message, has that
\* value recorded as its exception, and the caller receives the same value.
C2_AnyThrownValueRecorded ==
    \A i \in OpIds :
        (Done(i) /\ Failed(i)) =>
            /\ SpanOf(i).status = "ERROR"
            /\ SpanOf(i).statusMessage = ops[i].beh.err.message
            /\ SpanOf(i).exceptions = <<ops[i].beh.err>>
            /\ ops[i].outcome = [type |-> "threw", val |-> ops[i].beh.err.id]

\* C3: two invocations of the same wrapper with the same handler behaviour
\* give their callers the same outcome whether the telemetry backend was
\* reachable or not when they settled, and a handler that resolved is never
\* reported as thrown.
C3_NonInterference ==
    /\ \A i, j \in OpIds :
          (/\ Done(i) /\ Done(j)
           /\ ops[i].kind = ops[j].kind
           /\ ops[i].beh = ops[j].beh) => ops[i].outcome = ops[j].outcome
    /\ \A i \in OpIds :
          (Done(i) /\ ~Failed(i)) => ops[i].outcome.type = "returned"

C3_Witness ==
    /\ Done(1) /\ Done(2)
    /\ ops[1].kind = ops[2].kind
    /\ ops[1].beh = ops[2].beh
    /\ ~Failed(1)
    /\ ops[1].seenUp /\ ~ops[2].seenUp
    /\ ops[1].outcome = ops[2].outcome

Logged == lastLog.level # "none" /\ ~lastLog.dropped

\* C4: a logger call at or above the minimum level, made while the flag is
\* unavailable and remote export is enabled, writes a console line, also
\* with console output configured off.
C4_FallbackConsoleLine ==
    (Logged /\ ~lastLog.flagBefore /\ logger.enableOtlpLogs) => lastLog.consoleLines = 1

C4_Witness ==
    /\ Logged
    /\ ~lastLog.flagBefore
    /\ logger.enableOtlpLogs
    /\ ~logger.enableConsoleLogs
    /\ lastLog.consoleLines = 1
    /\ Len(console) >= 1

\* C5: a log call, made after an emission failure has set the flag to
\* unavailable and while the backend accepts exports again, attempts the
\* remote emission, succeeds and sets the flag back to available.
C5_RecoveryByNextLogCall ==
    (/\ Logged
     /\ logger.enableOtlpLogs
     /\ ~lastLog.flagBefore
     /\ lastLog.causeBefore = "emitFail"
     /\ lastLog.up)
    => (lastLog.attempted /\ lastLog.otlpSuccess /\ lastLog.flagAfter)

\* C6: the flag starts available; a log call whose export fails completes
\* without throwing, reports the failure as a false emission result and
\* leaves the flag unavailable; no logger call throws.
C6_ExportFailureContained ==
    /\ nCalls = 0 => otlpAvailable
    /\ ~lastLog.threw
    /\ (lastLog.attempted /\ ~lastLog.up) =>
          (~lastLog.otlpSuccess /\ ~lastLog.flagAfter)

C6_Witness ==
    /\ Logged
    /\ lastLog.attempted
    /\ ~lastLog.up
    /\ ~lastLog.otlpSuccess
    /\ ~lastLog.flagAfter
    /\ lastLog.flagBefore

\* What C7 says of the entries out produced from the entries data: the same
\* keys in the same order, the marker under every sensitive key, and every
\* other value unchanged in kind and content, nested objects and the
\* objects inside arrays being redacted in the same way.
RECURSIVE RedactedAsClaimed(_, _, _)
RECURSIVE ValueAsClaimed(_, _, _)
RedactedAsClaimed(data, out, fields) ==
    /\ Len(out) = Len(data)
    /\ \A i \in 1..Len(data) :
          /\ out[i].k = data[i].k
          /\ IF IsSensitive(data[i].k, fields)
             THEN out[i].val = Redacted
             ELSE ValueAsClaimed(data[i].val, out[i].val, fields)

ValueAsClaimed(v, o, fields) ==
    /\ o.t = v.t
    /\ o.s = v.s
    /\ Len(o.kids) = Len(v.kids)
    /\ IF v.t = "obj"
       THEN RedactedAsClaimed(v.kids, o.kids, fields)
       ELSE \A j \in 1..Len(v.kids) :
               /\ o.kids[j].k = v.kids[j].k
               /\ ValueAsClaimed(v.kids[j].val, o.kids[j].val, fields)

\* C7: in the produced entry every key whose lowercased name contains a
\* sensitive substring has the value '[REDACTED]', at any depth and inside
\* array elements, and every other value (scalars, arrays, nested arrays,
\* nested mappings) is unchanged in value and shape.
C7_RedactionKeepsShape ==
    masked.done => RedactedAsClaimed(meta, masked.v, sensitive)

\* A carrier without a recognizable traceparent: none, or a malformed one.
NoTraceKeys(c) ==
    \/ "traceparent" \notin DOMAIN c
    \/ c["traceparent"] \in MalformedTps

Extracting(i) == ops[i].kind \in {"consume", "wsAuto", "wsManual"}

\* C8: when the carrier has no recognizable trace keys, the span that
\* wrapConsumer or a socket handler opens is a trace root, whatever span is
\* ambient at the call.
C8_NoCarrierGivesRoot ==
    \A i \in OpIds :
        (Started(i) /\ Extracting(i) /\ NoTraceKeys(ops[i].carrier)) =>
            /\ SpanOf(i).parentId = 0
            /\ SpanOf(i).traceId # ops[i].ambient.traceId

\* C9: when wrapConsumer gets a message whose traceparent names trace 2 and
\* span 5, the consume span has trace id 2 and parent 5 whatever span is
\* ambient, and the handler runs once with the consume span active.
C9_ConsumeAdoptsCarrierTrace ==
    \A i \in OpIds :
        (/\ Started(i)
         /\ ops[i].kind = "consume"
         /\ "traceparent" \in DOMAIN ops[i].carrier
         /\ ops[i].carrier["traceparent"] = TpCarrier) =>
            /\ SpanOf(i).traceId = 2
            /\ SpanOf(i).parentId = 5
            /\ ops[i].handlerCalls = 1
            /\ ops[i].handlerCtx.spanId = SpanOf(i).spanId
            /\ ops[i].handlerCtx.traceId = 2

C9_Witness ==
    /\ Started(1)
    /\ ops[1].kind = "consume"
    /\ ops[1].ambient = AmbientSpan
    /\ "traceparent" \in DOMAIN ops[1].carrier
    /\ ops[1].carrier["traceparent"] = TpCarrier
    /\ SpanOf(1).traceId = 2
    /\ SpanOf(1).traceId # ops[1].ambient.traceId

\* C10: when the patched send is called while a span of trace T is active,
\* the options given to the original send hold headers whose traceparent
\* has trace id T and the producer span's id, whatever options the caller
\* gave, and the caller's other options are passed on.
C10_SendInjectsActiveTrace ==
    \A i \in OpIds :
        (/\ Started(i)
         /\ ops[i].kind = "send"
         /\ ops[i].handlerCalls = 1
         /\ IsSpanContextValid(ops[i].ambient)) =>
            /\ "traceparent" \in DOMAIN ops[i].passed.headers
            /\ LET tp == ops[i].passed.headers["traceparent"]
               IN /\ Len(tp) = 4
                  /\ tp[1] = "00"
                  /\ tp[2] = ops[i].ambient.traceId
                  /\ tp[3] = SpanOf(i).spanId
            /\ SpanOf(i).traceId = ops[i].ambient.traceId

C10_Witness ==
    /\ Started(1)
    /\ ops[1].kind = "send"
    /\ ops[1].handlerCalls = 1
    /\ ops[1].ambient = AmbientSpan
    /\ DOMAIN ops[1].carrier = {}
    /\ "traceparent" \in DOMAIN ops[1].passed.headers
    /\ ops[1].passed.headers["traceparent"][2] = 1

\* C11: for a valid context ctx, the context extracted from the carrier
\* that injecting ctx produced (injectRabbitMQContext then
\* extractRabbitMQContext; the _trace of injectTraceContext then the socket
\* extraction) has the trace id and span id of ctx.
C11_CarrierRoundTrip ==
    (/\ prop.step = "extracted"
     /\ prop.via \in {"rabbit", "socket"}
     /\ IsSpanContextValid(prop.ctx))
    => (prop.out.traceId = prop.ctx.traceId /\ prop.out.spanId = prop.ctx.spanId)

TraceKeys == {"traceparent", "tracestate"}

KeepsOtherKeys(given, out) ==
    \A k \in (DOMAIN given) \ TraceKeys : k \in DOMAIN out /\ out[k] = given[k]

\* C12: injectRabbitMQContext returns headers that keep every other key the
\* caller supplied and leaves the caller's object as it was; the patched
\* send calls the original send once, with the caller's receiver, queue and
\* message, the caller's other header keys and options, and leaves the
\* caller's options object as it was.
C12_InjectionKeepsCallerData ==
    /\ (prop.step # "idle" /\ prop.via = "rabbit") =>
          /\ prop.givenAfter = prop.given
          /\ KeepsOtherKeys(prop.given, prop.carrier)
    /\ \A i \in OpIds :
          (Started(i) /\ ops[i].kind = "send") =>
             /\ ops[i].handlerCalls = 1
             /\ ops[i].given.after = ops[i].given.options
             /\ KeepsOtherKeys(SendHeaders(ops[i].given.options), ops[i].passed.headers)
             /\ ops[i].passed.receiver = ops[i].given.receiver
             /\ ops[i].passed.queue = ops[i].given.queue
             /\ ops[i].passed.msg = ops[i].given.msg
             /\ ops[i].given.options.present =>
                   ops[i].passed.persistent = ops[i].given.options.persistent

C12_Witness ==
    /\ prop.step # "idle"
    /\ prop.via = "rabbit"
    /\ IsSpanContextValid(prop.ctx)
    /\ "x-other" \in DOMAIN prop.given
    /\ "traceparent" \in DOMAIN prop.carrier
    /\ "traceparent" \notin DOMAIN prop.givenAfter
    /\ Started(1)
    /\ ops[1].kind = "send"
    /\ ops[1].given.options.hasHeaders
    /\ ops[1].given.options.persistent
    /\ ops[1].passed.persistent
    /\ ops[1].passed.queue = "audit"
    /\ "x-other" \in DOMAIN ops[1].passed.headers
    /\ "traceparent" \in DOMAIN ops[1].passed.headers

\* The trace keys of a carrier.
TraceKeysOf(c) == [k \in (DOMAIN c) \cap TraceKeys |-> c[k]]

HasTraceParent(c) == "traceparent" \in DOMAIN c

\* The query-string trace parameters as a carrier.
QueryCarrier(so) ==
    LET tp == IF so.handshake /\ so.qTp.present
              THEN Carrier1("traceparent", so.qTp.v) ELSE EmptyCarrier
    IN IF so.handshake /\ so.qTs.present
       THEN MergeCarrier(tp, Carrier1("tracestate", so.qTs.v)) ELSE tp

\* The one source C13 names for a socket and a payload: the first of
\* payload _trace, handshake headers, query string that holds a traceparent.
ClaimedSource(so, pl) ==
    LET fromHeaders == IF so.handshake /\ so.hasHeaders
                       THEN HeadersToCarrier(so.headers) ELSE EmptyCarrier
    IN IF pl.isObject /\ pl.hasTrace /\ HasTraceParent(pl.trace) THEN pl.trace
       ELSE IF HasTraceParent(fromHeaders) THEN fromHeaders
       ELSE QueryCarrier(so)

\* C13: the trace keys the socket-event extraction uses are those of exactly
\* one source, the first present of payload _trace, handshake headers, query
\* string; no key of another source is merged in.
C13_FirstSourceWins ==
    (prop.step = "extracted" /\ prop.via \in {"event", "socket"}) =>
        TraceKeysOf(prop.extracted) = TraceKeysOf(ClaimedSource(prop.so, prop.payload))

SpansOf(i) == {n \in 1..Len(spans) : spans[n].owner = i}
MetricsOf(i) == {n \in 1..Len(metrics) : metrics[n].op = i}

OnlyCallsOn(c) ==
    /\ Len(lifecycle) >= 1
    /\ \A k \in 1..Len(lifecycle) : lifecycle[k].target = c

OnlyInitsOf(c) ==
    /\ OnlyCallsOn(c)
    /\ \A k \in 1..Len(lifecycle) : lifecycle[k].op = "init"

\* C14: after one or more initRabbitMQInterceptor calls on a class and no
\* restore, the class's send is the wrapper around the class's own send,
\* and every send call has started one producer span, called the original
\* send once and, once settled, recorded one metric.
C14_InitIdempotent ==
    \A c \in Classes :
        OnlyInitsOf(c) =>
            /\ protoSend[c] = "wrapper"
            /\ originalSend = "orig"
            /\ isPatched
            /\ \A i \in OpIds :
                  (Started(i) /\ ops[i].kind = "send") =>
                     /\ Cardinality(SpansOf(i)) = 1
                     /\ ops[i].handlerCalls = 1
                     /\ Cardinality(MetricsOf(i)) = IF Done(i) THEN 1 ELSE 0

C14_Witness ==
    /\ lifecycle = <<LifecycleCall("init", "RabbitMQ"), LifecycleCall("init", "RabbitMQ"),
                     LifecycleCall("init", "RabbitMQ")>>
    /\ lastCall.patchedBefore
    /\ Done(1)
    /\ ops[1].kind = "send"
    /\ Cardinality(SpansOf(1)) = 1
    /\ Cardinality(MetricsOf(1)) = 1

\* C15: a handler for a non-reserved event, registered on a socket that
\* connected after initSocketIOInterceptor had been called twice, produces
\* one span and one metric record when it is fired once.
C15_SocketInitIdempotent ==
    (/\ lastFire.n > 0
     /\ ~IsReservedEvent(lastFire.event)
     /\ lastFire.layers = 2)
    => (lastFire.spans = 1 /\ lastFire.metrics = 1 /\ lastFire.handlerCalls = 1)

\* C16: when every lifecycle call so far was made on class C, then after a
\* restoreRabbitMQ(C) the prototype's send is the class's own method again,
\* nothing is recorded as patched and a send starts no span and records no
\* metric; after an initRabbitMQInterceptor(C) the send is patched, also when
\* restores came before it.
C16_RestoreUndoesInit ==
    \A c \in Classes :
        OnlyCallsOn(c) =>
            /\ IF lifecycle[Len(lifecycle)].op = "restore"
               THEN /\ protoSend[c] = UnpatchedSend(c)
                    /\ ~isPatched
                    /\ originalSend = "null"
               ELSE /\ protoSend[c] = "wrapper"
                    /\ isPatched
                    /\ originalSend = UnpatchedSend(c)
            /\ \A i \in OpIds :
                  ops[i].kind = "direct" => SpansOf(i) = {} /\ MetricsOf(i) = {}

C16_Witness ==
    /\ lifecycle = <<LifecycleCall("init", "RabbitMQ"), LifecycleCall("restore", "RabbitMQ"),
                     LifecycleCall("init", "RabbitMQ")>>
    /\ protoSend["RabbitMQ"] = "wrapper"
    /\ ops[1].kind = "send"
    /\ ops[2].kind = "direct"
    /\ SpansOf(2) = {}

\* C17: an initRabbitMQInterceptor call, made while nothing is patched, on a
\* target whose prototype has no send logs a warning, reports no success,
\* records nothing as patched and throws nothing; and an
\* initRabbitMQInterceptor on a class after it patches that class.
C17_MissingSendAborts ==
    /\ (/\ lastCall.op = "init"
        /\ lastCall.sendBefore = "missing"
        /\ ~lastCall.patchedBefore)
       => (lastCall.warned /\ ~lastCall.info /\ ~lastCall.raised /\ ~isPatched)
    /\ \A c \in Classes :
          lifecycle = <<LifecycleCall("init", NoSendTarget), LifecycleCall("init", c)>>
             => protoSend[c] = "wrapper"

\* How often a listener kind occurs among the connection listeners.
CountOf(kind, ls) == Cardinality({k \in 1..Len(ls) : ls[k] = kind})

\* C18: on a socket that connected when initSocketIOInterceptor had been
\* called once, every handler registered for a non-reserved event is wrapped
\* once (one span and one metric per firing), whether the application's
\* connection listener was registered before or after the interceptor's, and
\* every handler for a reserved event is unwrapped (no span, no metric).
C18_EveryHandlerTraced ==
    (clientSocket.connected /\ CountOf("interceptor", clientSocket.listeners) = 1) =>
        /\ \A k \in 1..Len(clientSocket.handlers) :
              clientSocket.handlers[k].wraps =
                 IF IsReservedEvent(clientSocket.handlers[k].event) THEN 0 ELSE 1
        /\ lastFire.n > 0 =>
              LET expected == IF IsReservedEvent(lastFire.event) THEN 0 ELSE 1
              IN lastFire.spans = expected /\ lastFire.metrics = expected

\* C19: every invocation of a guarded operation that has settled has
\* recorded one metric, whose success flag says whether the handler settled
\* without throwing, and none before; a handler that threw reaches the
\* caller as thrown.
C19_OneMetricPerInvocation ==
    \A i \in OpIds :
        /\ Done(i) =>
              /\ Cardinality(MetricsOf(i)) = 1
              /\ \A n \in MetricsOf(i) : metrics[n].success = ~Failed(i)
              /\ Failed(i) => ops[i].outcome.type = "threw"
        /\ ~Done(i) => MetricsOf(i) = {}

C19_Witness ==
    /\ Done(1) /\ ops[1].kind = "wsAuto" /\ Failed(1)
    /\ Cardinality(MetricsOf(1)) = 1
    /\ ~metrics[1].success
    /\ Done(2) /\ ops[2].kind = "send" /\ ~Failed(2)
    /\ metrics[2].success

\* C20: the events of one traced operation come in the order span start,
\* handler start, handler settled, status set (when one is set), metric
\* recorded, span end; while the handler is pending only the first two have
\* happened and the span is not ended.
C20_EventOrder ==
    \A i \in OpIds :
        /\ ops[i].pc = "awaiting" =>
              /\ ops[i].events = <<"spanStart", "handlerStart">>
              /\ ~SpanOf(i).ended
        /\ Done(i) =>
              \E st \in {<<>>, <<"statusSet">>} :
                 ops[i].events = <<"spanStart", "handlerStart", "handlerSettled">>
                                 \o st \o <<"metricRecorded", "spanEnd">>

C20_Witness ==
    /\ ops[1].pc = "awaiting"
    /\ ops[1].events = <<"spanStart", "handlerStart">>
    /\ Done(2)
    /\ ops[2].beh.hb = "reject"
    /\ ops[2].events = <<"spanStart", "handlerStart", "handlerSettled", "statusSet",
                         "metricRecorded", "spanEnd">>

\* C21: every span a traced socket handler or consumer started is
\* eventually ended, and when the enclosing operation was abandoned while the
\* handler was suspended the span is ended with error status.
C21_AbandonedSpanEnded ==
    \A i \in OpIds :
        (ops[i].pc \in {"awaiting", "abandoned"})
        ~> (IF ops[i].span = 0 THEN FALSE
            ELSE /\ SpanOf(i).ended
                 /\ ops[i].pc = "abandoned" => SpanOf(i).status = "ERROR")

LevelRank(level) ==
    CHOOSE k \in 1..4 : <<"debug", "info", "warn", "error">>[k] = level

\* C23: once initObservability or initStructuredLogger has been called with
\* options, a log call through the default logger or through a logger made
\* by createLogger applies those options (minimum level, sensitive fields,
\* service name, environment, remote and console flags), whether the logger
\* object was created before or after the init call.
C23_InitConfiguresEveryLogger ==
    (lastInstLog.n > 0 /\ lastInstLog.supplied.set) =>
        /\ lastInstLog.fields = lastInstLog.supplied.v
        /\ lastInstLog.dropped =
              (LevelRank(lastInstLog.level) < LevelRank(lastInstLog.supplied.v.logLevel))

\* C24: a WinstonOtelTransport.log call with OTLP enabled and console output
\* disabled, made while the availability flag is false or whose remote
\* emission fails, writes the entry to the console.
C24_WinstonFallback ==
    (/\ lastWinston.n > 0
     /\ transport.enableOtlp
     /\ ~transport.enableConsole
     /\ (~lastWinston.flagBefore \/ (lastWinston.attempted /\ ~lastWinston.emitted)))
    => lastWinston.wrote

\* The console format C27 names for an environment.
ClaimedFormat(environment) == IF environment = "production" THEN "json" ELSE "text"

\* C27: a console line is single-line JSON when the environment is production
\* and the human-readable text in every other environment, for the lines of
\* StructuredLogger and for the lines of WinstonOtelTransport.
C27_ConsoleFormatByEnvironment ==
    /\ lastWinston.wrote => lastWinston.line.format = ClaimedFormat(transport.environment)
    /\ lastWinston.n = 0 =>
          \A k \in 1..Len(console) : console[k].format = ClaimedFormat(logger.environment)

\* C25: when the handler of a guarded operation resolved, the span has
\* status OK and is ended, and wrapConsumer, wrapSocketHandler and the
\* patched send have returned the value the handler (the original send)
\* resolved with.
C25_SuccessReturnsResult ==
    \A i \in OpIds :
        (Done(i) /\ ~Failed(i)) =>
            /\ SpanOf(i).status = "OK"
            /\ SpanOf(i).ended
            /\ SpanOf(i).exceptions = <<>>
            /\ ops[i].kind \in {"consume", "wsManual", "send"} =>
                  ops[i].outcome = [type |-> "returned",
                                    val |-> HandlerResult(ops[i].beh).val]

C25_Witness ==
    /\ Done(1) /\ ops[1].kind = "consume" /\ ~Failed(1)
    /\ ops[1].outcome = [type |-> "returned", val |-> "R"]
    /\ SpanOf(1).status = "OK"
    /\ Done(2) /\ ops[2].kind = "send" /\ ~Failed(2)
    /\ ops[2].outcome = [type |-> "returned", val |-> "R"]
    /\ SpanOf(2).status = "OK"

\* C26: with debug < info < warn < error, a StructuredLogger call below the
\* configured minimum level builds no entry, emits nothing remotely, writes
\* no console line and leaves the availability flag alone; a call at or above
\* the minimum is processed: it reaches the remote emission when that is
\* enabled and available, and the console when that is enabled.
C26_LevelFilter ==
    lastLog.level # "none" =>
        IF LevelRank(lastLog.level) < LevelRank(logger.logLevel)
        THEN /\ lastLog.dropped
             /\ ~lastLog.attempted
             /\ ~lastLog.otlpSuccess
             /\ lastLog.consoleLines = 0
             /\ lastLog.flagAfter = lastLog.flagBefore
        ELSE /\ ~lastLog.dropped
             /\ lastLog.attempted = (logger.enableOtlpLogs /\ lastLog.flagBefore)
             /\ logger.enableConsoleLogs => lastLog.consoleLines = 1

C26_Witness ==
    /\ logger.logLevel = "warn"
    /\ logger.enableConsoleLogs
    /\ logger.enableOtlpLogs
    /\ lastLog.level = "info"
    /\ lastLog.dropped
    /\ nCalls = 2
    /\ Len(console) = 1
    /\ console[1].level = "warn"
    /\ Len(otlpLog) = 1

ExcludedPrefixes == {Health, Health \o <<"z">>, Ready, MetricsPath, Favicon}

Excluded(path) ==
    \E prefix \in ExcludedPrefixes :
        /\ Len(prefix) <= Len(path)
        /\ SubSeq(path, 1, Len(prefix)) = prefix

HttpMetricsOf(r) == {n \in 1..Len(httpMetrics) : httpMetrics[n].req = r}

\* C29: a request whose path starts with /health, /healthz, /ready, /metrics
\* or /favicon.ico has no request metric in any state, whatever its method
\* and status and whatever happens to it later, and the middleware has called
\* next once for it.
C29_ExcludedPathsUnmetered ==
    \A r \in ReqIds :
        (reqs[r].pc # "idle" /\ Excluded(reqs[r].path)) =>
            /\ HttpMetricsOf(r) = {}
            /\ reqs[r].nextCalls = 1

C29_Witness ==
    /\ reqs[1].pc = "finished"
    /\ reqs[1].path = Health \o <<"c", "h", "e", "c", "k">>
    /\ reqs[1].method = "POST"
    /\ reqs[1].statusCode = 500
    /\ reqs[1].nextCalls = 1
    /\ reqs[2].pc = "finished"
    /\ reqs[2].path = MetricsPath \o <<"/", "x">>
    /\ httpMetrics = <<>>

\* C30: for a request whose path is not excluded the middleware has called
\* next once; there is no metric for it before its response has finished and
\* one once it has, holding the method, the status code and the route of the
\* request as they are at the finish and the time from its own entry to the
\* finish.
C30_OneMetricAtCompletion ==
    \A r \in ReqIds :
        (reqs[r].pc # "idle" /\ ~Excluded(reqs[r].path)) =>
            /\ reqs[r].nextCalls = 1
            /\ reqs[r].pc # "finished" => HttpMetricsOf(r) = {}
            /\ reqs[r].pc = "finished" =>
                  /\ Cardinality(HttpMetricsOf(r)) = 1
                  /\ \A n \in HttpMetricsOf(r) :
                        /\ httpMetrics[n].method = reqs[r].method
                        /\ httpMetrics[n].statusCode = reqs[r].statusCode
                        /\ httpMetrics[n].route = GetRoute(reqs[r])
                        /\ httpMetrics[n].durationMs =
                              reqs[r].finishedAt - reqs[r].startTime

C30_Witness ==
    /\ reqs[1].pc = "finished"
    /\ reqs[1].path = Users \o <<"/", "4", "2">>
    /\ reqs[1].route = Users \o <<"/">> \o IdMark
    /\ reqs[1].statusCode = 404
    /\ reqs[1].startTime = 0
    /\ reqs[2].pc = "finished"
    /\ reqs[2].path = Api \o Health
    /\ reqs[2].startTime = 1
    /\ Len(httpMetrics) = 2
    /\ httpMetrics[1].req = 2
    /\ httpMetrics[1].durationMs = 0
    /\ httpMetrics[2].req = 1
    /\ httpMetrics[2].durationMs = 2
    /\ httpMetrics[2].statusCode = 404

\* The label C31 describes, segment by segment: a segment that is a UUID or
\* that consists of digits only becomes :id, every other segment stays.
SegmentEnd(s, p) ==
    CHOOSE q \in (p + 1)..(Len(s) + 1) :
        /\ IF q = Len(s) + 1 THEN TRUE ELSE s[q] = "/"
        /\ \A k \in (p + 1)..(q - 1) : s[k] # "/"

IsIdSegment(seg) ==
    \/ Len(seg) = 36 /\ MatchesUuidAt(seg, 1)
    \/ Len(seg) > 0 /\ \A k \in 1..Len(seg) : seg[k] \in Digits

RECURSIVE ClaimedSegmentsFrom(_, _)
ClaimedSegmentsFrom(s, p) ==
    IF p > Len(s) THEN <<>>
    ELSE LET q   == SegmentEnd(s, p)
             seg == SubSeq(s, p + 1, q - 1)
         IN <<"/">> \o (IF IsIdSegment(seg) THEN IdMark ELSE seg)
                    \o ClaimedSegmentsFrom(s, q)

ClaimedLabel(req) ==
    IF req.route # <<>> THEN req.route ELSE ClaimedSegmentsFrom(req.path, 1)

\* C31: the route label of every request metric is the matched route
\* template when there is one, and otherwise the path in which each UUID
\* segment and each purely numeric segment is replaced by :id and every other
\* segment, also one that only begins with digits, is unchanged.
C31_RouteLabel ==
    \A n \in 1..Len(httpMetrics) :
        httpMetrics[n].route = ClaimedLabel(reqs[httpMetrics[n].req])

\* The stream C32 names for a level.
ClaimedStream(level) ==
    CASE level = "error" -> "error"
      [] level = "warn" -> "warn"
      [] level = "debug" -> "debug"
      [] OTHER -> "log"

\* C32: every console line, of StructuredLogger and of WinstonOtelTransport,
\* in the text and in the JSON format, is on the error stream when its level
\* is error, on the warn stream when it is warn, on the debug stream when it
\* is debug and on the standard stream for every other level.
C32_StreamByLevel ==
    \A k \in 1..Len(console) : console[k].stream = ClaimedStream(console[k].level)

\* C34: a StructuredLogger call at or above the minimum level writes one
\* console line when console output is enabled, or when remote export is
\* enabled and the remote emission did not succeed (the flag was unavailable
\* or the emission returned false), and none otherwise; in particular none
\* with console output disabled after a successful emission, and with both
\* sinks disabled nothing reaches the console or the remote exporter.
C34_ConsoleIffEnabledOrFallback ==
    /\ Logged =>
          LET remoteSucceeded == lastLog.flagBefore /\ lastLog.up
          IN lastLog.consoleLines =
                IF \/ logger.enableConsoleLogs
                   \/ (logger.enableOtlpLogs /\ ~remoteSucceeded)
                THEN 1 ELSE 0
    /\ (~logger.enableConsoleLogs /\ ~logger.enableOtlpLogs) =>
          console = <<>> /\ otlpLog = <<>>

C34_Witness ==
    /\ nCalls = 2
    /\ Logged
    /\ ~logger.enableConsoleLogs
    /\ logger.enableOtlpLogs
    /\ lastLog.flagBefore
    /\ ~lastLog.up
    /\ lastLog.consoleLines = 1
    /\ Len(console) = 1
    /\ Len(otlpLog) = 1

\* C35: after any sequence of initRabbitMQInterceptor and restoreRabbitMQ
\* calls, on classes with or without a send method, the patched flag is set
\* exactly when an original send is stored and the prototype of a class
\* carries the traced wrapper.
C35_PatchStateConsistent ==
    isPatched <=> (originalSend # "null" /\ \E c \in Targets : protoSend[c] = "wrapper")

\* C36: once a restoreRabbitMQ call has returned, whatever calls came before
\* it and whatever class it was given, no prototype carries the traced
\* wrapper and the send of every class is the one the class had before any
\* patch.
C36_RestoreLeavesNoWrapper ==
    (lastCall.op = "restore" /\ ~lastCall.raised) =>
        \A c \in Targets :
            /\ protoSend[c] # "wrapper"
            /\ protoSend[c] = UnpatchedSend(c)

\* The fields C37 names.
OwnKeys ==
    {KeyTimestamp, KeyLevel, KeyMessage, KeyService, KeyEnvironment, KeyTraceId,
     KeySpanId, KeyContext}

\* C37: whatever the metadata mapping holds, each of the fields timestamp,
\* level, message, service, environment, trace_id, span_id and context that
\* the logger put into the entry has the logger's value in the entry written
\* to the console and, for the fields the remote attributes carry, in the
\* attributes handed to remote export, whose message is the logger's too.
C37_OwnFieldsKept ==
    lastFields.writer # "none" =>
        /\ \A k \in OwnKeys :
              HasKey(lastFields.own, k) =>
                  Get(lastFields.entry, k) = Get(lastFields.own, k)
        /\ \A k \in OwnKeys \ {KeyTimestamp, KeyLevel, KeyMessage} :
              HasKey(lastFields.own, k) =>
                  Get(lastFields.remote, k) = Get(lastFields.own, k)
        /\ lastFields.remoteMessage = Get(lastFields.own, KeyMessage).s

\* C33: a call of observabilityErrorMiddleware, for every error and with or
\* without an active span, throws nothing, records the exception and the
\* ERROR status on the active span when there is one and touches no span
\* otherwise, records one error metric with context 'http', writes one log at
\* level error, and sends one response whose status is the error's status
\* when it has one and 500 otherwise.
C33_ErrorMiddlewareOnce ==
    lastError.n > 0 =>
        /\ ~lastError.raised
        /\ IF lastError.hasSpan
           THEN /\ lastError.span.exceptions = <<lastError.error>>
                /\ lastError.span.status = "ERROR"
           ELSE lastError.span = RequestSpan
        /\ Len(lastError.errorMetrics) = 1
        /\ lastError.errorMetrics[1].context = "http"
        /\ Len(lastError.logs) = 1
        /\ lastError.logs[1].level = "error"
        /\ Len(lastError.responses) = 1
        /\ lastError.responses[1].status =
              IF lastError.error.status # 0 THEN lastError.error.status ELSE 500

C33_Witness ==
    /\ lastError.n > 0
    /\ ~lastError.hasSpan
    /\ ~backendUp
    /\ lastError.error.status = 404
    /\ lastError.error.isAxiosError = "true"
    /\ ~lastError.raised
    /\ Len(lastError.errorMetrics) = 1
    /\ Len(lastError.logs) = 1
    /\ lastError.responses[1].status = 404

\* C38: for every combination of the markers on the error object, the code
\* of the recorded error metric belongs to the family of the recorded type:
\* the error's Prisma code when the type is PrismaClientKnownRequestError,
\* the Axios response status, else the Axios code, else 'unknown' when the
\* type is AxiosError, and no code when the type is Error.
C38_CodeMatchesType ==
    (lastError.n > 0 /\ Len(lastError.errorMetrics) = 1) =>
        LET m == lastError.errorMetrics[1]
            e == lastError.error
        IN /\ m.type = ErrorTypePrismaKnown => m.code = Code(e.code.v)
           /\ m.type = ErrorTypeAxios =>
                 m.code = Code(IF e.responseStatus # 0 THEN StringOf(e.responseStatus)
                               ELSE IF e.code.has THEN e.code.v
                               ELSE "unknown")
           /\ m.type = ErrorTypeGeneric => m.code = NoCode

\* How often a call occurs among the calls of a log call.
StepCount(name, steps) == Cardinality({k \in 1..Len(steps) : steps[k] = name})

\* C39: every WinstonOtelTransport.log call, whatever enableOtlp,
\* enableConsole and the availability flag are, schedules the 'logged' event
\* once and invokes its callback once, as its last call, after the remote
\* sink and the console sink when they were attempted.
C39_CallbackOnce ==
    lastWinston.n > 0 =>
        LET steps == lastWinston.steps
        IN /\ StepCount("callback", steps) = 1
           /\ steps[Len(steps)] = "callback"
           /\ StepCount("setImmediate", steps) = 1
           /\ lastWinston.attempted <=> StepCount("sendToOtlp", steps) = 1
           /\ lastWinston.wrote <=> StepCount("outputToConsole", steps) = 1

C39_Witness ==
    /\ lastWinston.n = 2
    /\ transport.enableOtlp
    /\ transport.enableConsole
    /\ lastWinston.attempted
    /\ ~lastWinston.emitted
    /\ lastWinston.steps = <<"setImmediate", "sendToOtlp", "outputToConsole", "callback">>

====
